---- MODULE Spec2Model ----
(***************************************************************************)
(* Contextual FAQ Generator: the FAQ synthesizer (OpenAI variant of        *)
(* generateFaqs with makeOpenAIRequest and parseFaqResponse) and the       *)
(* extractor (crawlWebsite with its cleanText routine).                    *)
(*                                                                         *)
(* Strings are sequences of one-character strings.  JSON values are        *)
(* records tagged with their JavaScript type.  JavaScript numbers are      *)
(* records [t, v]: "fin" carries v in tenths (v = 75 is 7.5), "nan",       *)
(* "pinf" and "ninf" are NaN and the two infinities.                       *)
(***************************************************************************)
EXTENDS Integers, Sequences, FiniteSets, TLC

VARIABLES
    pc,          \* position of the generateFaqs call
    hasKey,      \* process.env.OPENAI_API_KEY is set
    text,        \* the text argument
    count,       \* the count argument
    faqCount,    \* the clamped count (0 before it is computed)
    promptLen,   \* length of truncatedText placed in the prompt (-1 before)
    attempt,     \* loop variable of makeOpenAIRequest
    lastError,   \* lastError of makeOpenAIRequest, while it can still be read
    inFlight,    \* generator requests awaiting their outcome
    log,         \* requests, outcomes and sleeps of the call, in order
    response,    \* the completion the generator returned
    result,      \* the array generateFaqs returned
    error,       \* the error generateFaqs threw
    cpc,         \* position of the crawlWebsite call
    url,         \* the url argument
    site,        \* what the fetch of the URL will meet: a page or a failure
    fetches,     \* the URLs given to axios.get, in order
    doc,         \* the structuredContent crawlWebsite returned
    crawlError,  \* the error crawlWebsite threw
    reqs,        \* the requests the server received: each handler's position
    CrawledPage, \* the CrawledPage collection, in insertion order
    FAQ,         \* the FAQ collection, in insertion order
    dash         \* the Dashboard component: its state, its calls of fetchFAQs

genVars == <<pc, hasKey, text, count, faqCount, promptLen, attempt, lastError,
             inFlight, log, response, result, error>>
crawlVars == <<cpc, url, site, fetches, doc, crawlError>>
apiVars == <<reqs, CrawledPage, FAQ>>
dashVars == <<dash>>
vars == <<genVars, crawlVars, apiVars, dashVars>>

----------------------------------------------------------------------------
(* Program constants *)

DEFAULT_FAQ_COUNT == 5
MAX_TEXT_LENGTH == 10000
MIN_FAQS == 5
MAX_FAQS == 10
RETRIES == 2
BASE_DELAY_MS == 1000

(* Bounds of the model *)

MaxExtra == 2        \* items the generator may return beyond faqCount
MaxTenths == 125     \* largest |count| given to the clamp, in tenths
MaxNodes == 2        \* elements in the body of a fetched page
MaxLen == 4          \* characters of a text given to cleanText

----------------------------------------------------------------------------
(* Strings *)

\* the characters of the class \s, which are also those trim() removes;
\* "nbsp" stands for the whitespace characters outside ASCII, "gap" for a
\* run of 20 spaces
WS == {" ", "\t", "\n", "\r", "\f", "nbsp", "gap"}

\* "word" and "w1", "w2", ... each stand for a run of 21 letters
Words == {"word", "wt", "wm", "w1", "w2", "w3", "w4", "w5"}
Width(ch) ==
    IF ch \in Words THEN 21 ELSE IF ch = "gap" THEN 20
    ELSE IF ch = "Untitled" THEN 8 ELSE 1

\* s.length
RECURSIVE StrLen(_)
StrLen(s) == IF s = <<>> THEN 0 ELSE Width(Head(s)) + StrLen(Tail(s))

RECURSIVE TrimStart(_)
TrimStart(s) ==
    IF s # <<>> /\ Head(s) \in WS THEN TrimStart(Tail(s)) ELSE s

RECURSIVE TrimEnd(_)
TrimEnd(s) ==
    IF s # <<>> /\ s[Len(s)] \in WS THEN TrimEnd(SubSeq(s, 1, Len(s) - 1)) ELSE s

Trim(s) == TrimEnd(TrimStart(s))

----------------------------------------------------------------------------
(* JavaScript numbers, as far as the count expression needs them *)

Fin(v) == [t |-> "fin", v |-> v]
NaN == [t |-> "nan", v |-> 0]
PosInf == [t |-> "pinf", v |-> 0]
NegInf == [t |-> "ninf", v |-> 0]

MathFloor(x) == IF x.t = "fin" THEN Fin((x.v \div 10) * 10) ELSE x

\* x || d : NaN and 0 are falsy
OrElse(x, d) == IF x.t = "nan" \/ (x.t = "fin" /\ x.v = 0) THEN d ELSE x

MathMax(x, y) ==
    CASE x.t = "nan" \/ y.t = "nan" -> NaN
      [] x.t = "pinf" \/ y.t = "pinf" -> PosInf
      [] x.t = "ninf" -> y
      [] y.t = "ninf" -> x
      [] OTHER -> IF x.v >= y.v THEN x ELSE y

MathMin(x, y) ==
    CASE x.t = "nan" \/ y.t = "nan" -> NaN
      [] x.t = "ninf" \/ y.t = "ninf" -> NegInf
      [] x.t = "pinf" -> y
      [] y.t = "pinf" -> x
      [] OTHER -> IF x.v <= y.v THEN x ELSE y

Undefined == [t |-> "undefined", v |-> 0]

\* the default parameter value: count = DEFAULT_FAQ_COUNT
CountParam(c) == IF c.t = "undefined" THEN Fin(DEFAULT_FAQ_COUNT * 10) ELSE c

ClampCountNoFloor(c) ==
    MathMin(MathMax(OrElse(CountParam(c), Fin(DEFAULT_FAQ_COUNT * 10)),
                    Fin(MIN_FAQS * 10)),
            Fin(MAX_FAQS * 10))

\* Math.min(Math.max(Math.floor(count) || DEFAULT_FAQ_COUNT, 5), 10)
ClampCount(c) ==
    MathMin(MathMax(OrElse(MathFloor(CountParam(c)), Fin(DEFAULT_FAQ_COUNT * 10)),
                    Fin(MIN_FAQS * 10)),
            Fin(MAX_FAQS * 10))

\* the clamped count as an integer; 0 if the expression gave no whole number
EffectiveCount(c) ==
    LET r == ClampCount(c)
    IN  IF r.t = "fin" /\ r.v % 10 = 0 THEN r.v \div 10 ELSE 0

----------------------------------------------------------------------------
(* The text argument: its JavaScript type, its length and the length of    *)
(* text.trim()                                                             *)

Texts ==
    { [t |-> "undefined", len |-> 0, trimmed |-> 0],
      [t |-> "number", len |-> 0, trimmed |-> 0],
      [t |-> "string", len |-> 0, trimmed |-> 0],
      [t |-> "string", len |-> 3, trimmed |-> 0],
      [t |-> "string", len |-> 14, trimmed |-> 12],
      [t |-> "string", len |-> MAX_TEXT_LENGTH, trimmed |-> MAX_TEXT_LENGTH],
      [t |-> "string", len |-> MAX_TEXT_LENGTH + 1, trimmed |-> MAX_TEXT_LENGTH] }

TextRejectedTypeOnly(x) == x.t # "string"

\* !text || typeof text !== 'string' || text.trim().length === 0
TextRejected(x) ==
    \/ x.t = "undefined"
    \/ (x.t = "string" /\ x.len = 0)
    \/ x.t # "string"
    \/ x.trimmed = 0

TruncatedLenNoMarker(x) ==
    IF x.len > MAX_TEXT_LENGTH THEN MAX_TEXT_LENGTH ELSE x.len

\* text.length > MAX_TEXT_LENGTH ? text.substring(0, MAX_TEXT_LENGTH) + '...' : text
TruncatedLen(x) ==
    IF x.len > MAX_TEXT_LENGTH THEN MAX_TEXT_LENGTH + 3 ELSE x.len

----------------------------------------------------------------------------
(* Decoded JSON items.  A value is undefined, a number or a string; an     *)
(* item is null, a primitive or an object with an id, a question and an    *)
(* answer.                                                                 *)

VUndef == [t |-> "undefined", s |-> <<>>]
VNum == [t |-> "number", s |-> <<>>]
VStr(s) == [t |-> "string", s |-> s]

Obj(i, q, a) == [t |-> "object", id |-> i, question |-> q, answer |-> a]

DefectKinds ==
    { "null", "prim", "q_missing", "q_number", "q_empty", "q_blank",
      "a_missing", "a_number", "a_empty", "a_blank" }

GoodQ(i) == IF i % 2 = 0 THEN VStr(<<"Q">>) ELSE VStr(<<" ", "Q", "\t">>)
GoodA(i) == IF i % 3 = 0 THEN VStr(<<"\n", "A", " ">>) ELSE VStr(<<"A">>)

\* the i-th item of a response; items without a defect alternate between
\* strings with and without surrounding whitespace
ItemOf(kind, i) ==
    CASE kind = "null" -> [t |-> "null", id |-> i, question |-> VUndef, answer |-> VUndef]
      [] kind = "prim" -> [t |-> "string", id |-> i, question |-> VUndef, answer |-> VUndef]
      [] kind = "q_missing" -> Obj(i, VUndef, GoodA(i))
      [] kind = "q_number" -> Obj(i, VNum, GoodA(i))
      [] kind = "q_empty" -> Obj(i, VStr(<<>>), GoodA(i))
      [] kind = "q_blank" -> Obj(i, VStr(<<" ", "\n">>), GoodA(i))
      [] kind = "a_missing" -> Obj(i, GoodQ(i), VUndef)
      [] kind = "a_number" -> Obj(i, GoodQ(i), VNum)
      [] kind = "a_empty" -> Obj(i, GoodQ(i), VStr(<<>>))
      [] kind = "a_blank" -> Obj(i, GoodQ(i), VStr(<<"\t">>))
      [] OTHER -> Obj(i, GoodQ(i), GoodA(i))

\* a malformed item: its place in the list (0: there is none) and its kind
NoDefect == [at |-> 0, kind |-> "good"]

FirstDefects(m) == {NoDefect} \cup { [at |-> i, kind |-> k] : i \in 1..m, k \in DefectKinds }

\* a second malformed item, further on in the list
LaterDefectKinds == { "null", "q_empty", "a_number" }

SecondDefects(m, d) ==
    {NoDefect} \cup
    IF d.at = 0 THEN {}
    ELSE { [at |-> i, kind |-> k] : i \in (d.at + 1)..m, k \in LaterDefectKinds }

\* the list of m items with the malformed items d1 and d2
Items(m, d1, d2) ==
    [i \in 1..m |-> ItemOf(IF i = d1.at THEN d1.kind
                           ELSE IF i = d2.at THEN d2.kind ELSE "good", i)]

----------------------------------------------------------------------------
(* The completion text, as a sequence of tokens; "ITEMS" stands for the    *)
(* comma-separated items of the response                                   *)

FENCE_JSON == "<fence>json"
FENCE == "<fence>"

Contents ==
    { <<>>,
      <<"{faqs:", "[", "ITEMS", "]", "}">>,
      <<FENCE_JSON, "{faqs:", "[", "ITEMS", "]", "}", FENCE>>,
      <<FENCE, "[", "ITEMS", "]", FENCE>>,
      <<"[", "ITEMS", "]">>,
      <<"{list:", "[", "ITEMS", "]", "}">>,
      <<"prose", "[", "ITEMS", "]", "prose">>,
      <<"{error:1}">>,
      <<"prose">>,
      <<"]", "ITEMS", "[">> }

PlainContent == <<"{faqs:", "[", "ITEMS", "]", "}">>

\* what JSON.parse makes of a token sequence
JsonParse(toks) ==
    CASE toks = <<"[", "ITEMS", "]">> -> "array"
      [] toks = <<"{faqs:", "[", "ITEMS", "]", "}">> -> "object_faqs"
      [] toks = <<"{list:", "[", "ITEMS", "]", "}">> -> "object"
      [] toks = <<"{error:1}">> -> "object"
      [] OTHER -> "SyntaxError"

\* the two replace calls that delete the code-fence markers, then trim
StripFences(toks) == SelectSeq(toks, LAMBDA x : x # FENCE_JSON /\ x # FENCE)

\* jsonString.match(/\[[\s\S]*\]/): from the first '[' to the last ']'
BracketMatch(toks) ==
    LET opens == { i \in 1..Len(toks) : toks[i] = "[" }
        closes == { i \in 1..Len(toks) : toks[i] = "]" }
        first == CHOOSE i \in opens : \A j \in opens : i <= j
        last == CHOOSE i \in closes : \A j \in closes : i >= j
    IN  IF opens # {} /\ closes # {} /\ first < last
        THEN SubSeq(toks, first, last)
        ELSE toks

ParseDirectOnly(toks) ==
    IF toks = <<>> THEN "EmptyResponse"
    ELSE LET parsed == JsonParse(StripFences(toks))
         IN  CASE parsed \in {"object_faqs", "array"} -> "array"
               [] parsed = "SyntaxError" -> "SyntaxError"
               [] OTHER -> "NotAnArray"

\* parseFaqResponse: "array" when it returns the items, else the error thrown
ParseFaqResponse(toks) ==
    IF toks = <<>> THEN "EmptyResponse"
    ELSE LET jsonString == StripFences(toks)
             parsed == JsonParse(jsonString)
         IN  IF parsed \in {"object_faqs", "array"} THEN "array"
             ELSE LET again == JsonParse(BracketMatch(jsonString))
                  IN  CASE again = "array" -> "array"
                        [] again = "SyntaxError" -> "SyntaxError"
                        [] OTHER -> "NotAnArray"

----------------------------------------------------------------------------
(* Errors: what is thrown inside generateFaqs, and what its catch block    *)
(* throws to the caller                                                    *)

\* name: Error, SyntaxError or APIError; cause: which throw; index: the item
\* index in the message (-1 if none); status: error.status (0 if absent);
\* resp: error.response.status (0 if there is no error.response);
\* hasMsg: error.message is a non-empty string
Thrown(name, cause, index) ==
    [name |-> name, cause |-> cause, index |-> index, status |-> 0, resp |-> 0,
     hasMsg |-> TRUE]

NoError == [name |-> "none", cause |-> "none", index |-> -1, status |-> 0,
            resp |-> 0, hasMsg |-> FALSE, wrap |-> "none"]

ErrStatuses == {0, 399, 400, 401, 429, 499, 500, 503}

\* the rejections of openai.chat.completions.create
ProviderErrors ==
    { [name |-> "APIError", cause |-> "provider", index |-> -1, status |-> s,
       resp |-> r, hasMsg |-> m]
      : s \in ErrStatuses, r \in {0, 1}, m \in BOOLEAN }
    \ { [name |-> "APIError", cause |-> "provider", index |-> -1, status |-> 0,
         resp |-> 1, hasMsg |-> m] : m \in BOOLEAN }

RespStatus(e) == IF e.resp = 1 THEN e.status ELSE 0

\* the catch block of generateFaqs: every path throws
CatchBlock(e) ==
    LET status == RespStatus(e)
        wrap == CASE e.resp = 1 /\ status = 429 -> "rate_limit"
                  [] e.resp = 1 /\ status >= 400 /\ status < 500 -> "client_error"
                  [] e.resp = 1 /\ status >= 500 -> "server_error"
                  [] e.resp = 1 -> "api_error"
                  [] e.name = "SyntaxError" -> "parse_error"
                  [] e.hasMsg -> "api_error_message"
                  [] OTHER -> "rethrown"
    IN  [name |-> e.name, cause |-> e.cause, index |-> e.index, status |-> e.status,
         resp |-> e.resp, hasMsg |-> e.hasMsg, wrap |-> wrap]

----------------------------------------------------------------------------
(* Structural validation and count reconciliation *)

Truthy(v) == \/ v.t = "number"
             \/ (v.t = "string" /\ v.s # <<>>)

\* !v || typeof v !== 'string' || v.trim().length === 0
FieldInvalid(v) ==
    \/ ~Truthy(v)
    \/ v.t # "string"
    \/ Len(Trim(v.s)) = 0

TrimItem(faq) ==
    [faq EXCEPT !.question = VStr(Trim(faq.question.s)),
                !.answer = VStr(Trim(faq.answer.s))]

\* the for loop over faqs, from index i (1-based here, i - 1 in the message)
RECURSIVE ValidateFrom(_, _)
ValidateFrom(faqs, i) ==
    IF i > Len(faqs) THEN [ok |-> TRUE, faqs |-> faqs, err |-> NoError]
    ELSE LET faq == faqs[i]
         IN  CASE faq.t = "null" \/ faq.t # "object" ->
                    [ok |-> FALSE, faqs |-> <<>>,
                     err |-> Thrown("Error", "not_object", i - 1)]
               [] FieldInvalid(faq.question) ->
                    [ok |-> FALSE, faqs |-> <<>>,
                     err |-> Thrown("Error", "question", i - 1)]
               [] FieldInvalid(faq.answer) ->
                    [ok |-> FALSE, faqs |-> <<>>,
                     err |-> Thrown("Error", "answer", i - 1)]
               [] OTHER ->
                    ValidateFrom([faqs EXCEPT ![i] = TrimItem(faq)], i + 1)

ReconcileAcceptFewer(faqs, n) ==
    [ok |-> TRUE, faqs |-> IF Len(faqs) > n THEN SubSeq(faqs, 1, n) ELSE faqs,
     err |-> NoError]

ReconcileLastItems(faqs, n) ==
    IF Len(faqs) < n
    THEN [ok |-> FALSE, faqs |-> <<>>, err |-> Thrown("Error", "too_few", -1)]
    ELSE [ok |-> TRUE, faqs |-> SubSeq(faqs, Len(faqs) - n + 1, Len(faqs)),
          err |-> NoError]

\* if (faqs.length > faqCount) slice; else if (faqs.length < faqCount) throw;
\* then the final length check
Reconcile(faqs, n) ==
    LET sliced == IF Len(faqs) > n THEN SubSeq(faqs, 1, n) ELSE faqs
    IN  CASE Len(faqs) < n ->
               [ok |-> FALSE, faqs |-> <<>>, err |-> Thrown("Error", "too_few", -1)]
          [] Len(sliced) # n ->
               [ok |-> FALSE, faqs |-> <<>>, err |-> Thrown("Error", "mismatch", -1)]
          [] OTHER -> [ok |-> TRUE, faqs |-> sliced, err |-> NoError]

ProcessResponseSliceFirst(r, n) ==
    IF ParseFaqResponse(r.content) # "array" \/ Len(r.items) = 0
    THEN [ok |-> FALSE, faqs |-> <<>>, err |-> Thrown("Error", "no_faqs", -1)]
    ELSE LET c == Reconcile(r.items, n)
         IN  IF c.ok THEN ValidateFrom(c.faqs, 1) ELSE c

\* lines 72-116 of generateFaqs: parse, validate, reconcile
ProcessResponse(r, n) ==
    LET p == ParseFaqResponse(r.content)
    IN  CASE p = "SyntaxError" ->
               [ok |-> FALSE, faqs |-> <<>>, err |-> Thrown("SyntaxError", "invalid_json", -1)]
          [] p = "EmptyResponse" ->
               [ok |-> FALSE, faqs |-> <<>>, err |-> Thrown("Error", "empty_response", -1)]
          [] p = "NotAnArray" ->
               [ok |-> FALSE, faqs |-> <<>>, err |-> Thrown("Error", "not_array", -1)]
          [] Len(r.items) = 0 ->
               [ok |-> FALSE, faqs |-> <<>>, err |-> Thrown("Error", "no_faqs", -1)]
          [] OTHER ->
               LET v == ValidateFrom(r.items, 1)
               IN  IF v.ok THEN Reconcile(v.faqs, n) ELSE v

----------------------------------------------------------------------------
(* cleanText: four global replaces and a trim *)

RECURSIVE DropWhile(_, _)
DropWhile(s, C) == IF s # <<>> /\ Head(s) \in C THEN DropWhile(Tail(s), C) ELSE s

\* a replace of every two whitespace characters, not of every run
RECURSIVE ReplaceWsPairs(_)
ReplaceWsPairs(s) ==
    IF Len(s) < 2 THEN s
    ELSE IF s[1] \in WS /\ s[2] \in WS
         THEN <<" ">> \o ReplaceWsPairs(SubSeq(s, 3, Len(s)))
    ELSE <<s[1]>> \o ReplaceWsPairs(Tail(s))

\* .replace(/\s+/g, ' ')
RECURSIVE ReplaceWsRuns(_)
ReplaceWsRuns(s) ==
    IF s = <<>> THEN <<>>
    ELSE IF Head(s) \in WS THEN <<" ">> \o ReplaceWsRuns(DropWhile(s, WS))
    ELSE <<Head(s)>> \o ReplaceWsRuns(Tail(s))

\* .replace(/\n\s*\n/g, '\n'): a newline, the longest run of whitespace
\* after it that ends in a newline
RECURSIVE ReplaceBlankLines(_)
ReplaceBlankLines(s) ==
    IF s = <<>> THEN <<>>
    ELSE IF Head(s) # "\n" THEN <<Head(s)>> \o ReplaceBlankLines(Tail(s))
    ELSE LET rest == Tail(s)
             run == Len(rest) - Len(DropWhile(rest, WS))
             ends == { k \in 1..run : rest[k] = "\n" }
             last == CHOOSE k \in ends : \A j \in ends : k >= j
         IN  IF ends = {} THEN <<"\n">> \o ReplaceBlankLines(rest)
             ELSE <<"\n">> \o ReplaceBlankLines(SubSeq(rest, last + 1, Len(rest)))

\* .replace(/[\r\t]/g, ' ')
ReplaceCrTab(s) == [i \in 1..Len(s) |-> IF s[i] \in {"\r", "\t"} THEN " " ELSE s[i]]

\* .replace(/[^\S\n]+/g, ' ')
RECURSIVE ReplaceHorizontalRuns(_)
ReplaceHorizontalRuns(s) ==
    IF s = <<>> THEN <<>>
    ELSE IF Head(s) \in WS \ {"\n"}
         THEN <<" ">> \o ReplaceHorizontalRuns(DropWhile(s, WS \ {"\n"}))
    ELSE <<Head(s)>> \o ReplaceHorizontalRuns(Tail(s))

CleanTextNoTrim(s) ==
    ReplaceHorizontalRuns(ReplaceCrTab(ReplaceBlankLines(ReplaceWsRuns(s))))

CleanText(s) ==
    Trim(ReplaceHorizontalRuns(ReplaceCrTab(ReplaceBlankLines(ReplaceWsRuns(s)))))

----------------------------------------------------------------------------
(* The parsed HTML: the elements in document order, each with its depth    *)
(* in the tree, its tag, a class or role it carries (as the selector that  *)
(* matches it), the text directly inside it, and for a meta element its    *)
(* name or property and its content attribute.                             *)

El(tag, mark, depth, txt) ==
    [tag |-> tag, mark |-> mark, depth |-> depth, text |-> txt, key |-> "",
     content |-> <<>>]

Meta(key, content) ==
    [tag |-> "meta", mark |-> "none", depth |-> 2, text |-> <<>>, key |-> key,
     content |-> content]

\* the last element of the subtree of element i
SubtreeEnd(dom, i) ==
    CHOOSE j \in i..Len(dom) :
        /\ \A k \in (i + 1)..j : dom[k].depth > dom[i].depth
        /\ j = Len(dom) \/ dom[j + 1].depth <= dom[i].depth

Subtree(dom, i) == i..SubtreeEnd(dom, i)

\* $(selector): the elements a selector matches
Select(dom, sel) ==
    { i \in 1..Len(dom) : IF sel.by = "tag" THEN dom[i].tag = sel.v
                                            ELSE dom[i].mark = sel.v }

ByTag(dom, tag) == Select(dom, [by |-> "tag", v |-> tag])

RECURSIVE KeepFrom(_, _, _)
KeepFrom(dom, drop, i) ==
    IF i > Len(dom) THEN <<>>
    ELSE IF i \in drop THEN KeepFrom(dom, drop, i + 1)
    ELSE <<dom[i]>> \o KeepFrom(dom, drop, i + 1)

\* $(selector).remove(): the matched elements go with their subtrees
Remove(dom, sel) ==
    KeepFrom(dom, UNION { Subtree(dom, i) : i \in Select(dom, sel) }, 1)

\* lines 50-67, in their order
NoiseSelectors ==
    << [by |-> "tag", v |-> "script"], [by |-> "tag", v |-> "style"],
       [by |-> "tag", v |-> "nav"], [by |-> "tag", v |-> "footer"],
       [by |-> "tag", v |-> "header"], [by |-> "tag", v |-> "aside"],
       [by |-> "mark", v |-> ".nav"], [by |-> "mark", v |-> ".navbar"],
       [by |-> "mark", v |-> ".footer"], [by |-> "mark", v |-> ".header"],
       [by |-> "mark", v |-> ".sidebar"], [by |-> "mark", v |-> ".menu"],
       [by |-> "mark", v |-> "role=navigation"], [by |-> "mark", v |-> "role=banner"],
       [by |-> "mark", v |-> "role=contentinfo"], [by |-> "tag", v |-> "noscript"],
       [by |-> "tag", v |-> "iframe"], [by |-> "tag", v |-> "svg"] >>

RECURSIVE RemoveAll(_, _, _)
RemoveAll(dom, sels, k) ==
    IF k > Len(sels) THEN dom ELSE RemoveAll(Remove(dom, sels[k]), sels, k + 1)

StripNoiseScriptStyleOnly(dom) == RemoveAll(dom, SubSeq(NoiseSelectors, 1, 2), 1)

StripNoise(dom) == RemoveAll(dom, NoiseSelectors, 1)

\* the text of the elements i..j, in document order
RECURSIVE TextOfRange(_, _, _)
TextOfRange(dom, i, j) ==
    IF i > j THEN <<>> ELSE dom[i].text \o TextOfRange(dom, i + 1, j)

\* $(element).text()
TextOf(dom, i) == TextOfRange(dom, i, SubtreeEnd(dom, i))

\* $(selector).text(): the texts of all matched elements, one after another
RECURSIVE TextOfAllFrom(_, _, _)
TextOfAllFrom(dom, I, i) ==
    IF i > Len(dom) THEN <<>>
    ELSE (IF i \in I THEN TextOf(dom, i) ELSE <<>>) \o TextOfAllFrom(dom, I, i + 1)

TextOfAll(dom, I) == TextOfAllFrom(dom, I, 1)

First(I) == IF I = {} THEN {} ELSE { CHOOSE i \in I : \A j \in I : i <= j }

\* $('meta[...]').attr('content'): of the first match; undefined without one
AttrContent(dom, key) ==
    LET I == First({ i \in ByTag(dom, "meta") : dom[i].key = key })
    IN  IF I = {} THEN [defined |-> FALSE, s |-> <<>>]
        ELSE [defined |-> TRUE, s |-> dom[CHOOSE i \in I : TRUE].content]

\* a falsy attribute value: undefined or ''
Falsy(a) == ~a.defined \/ a.s = <<>>

\* .each(...): the trimmed texts of the matched elements, in document order
RECURSIVE TrimmedTexts(_, _, _)
TrimmedTexts(dom, I, i) ==
    IF i > Len(dom) THEN <<>>
    ELSE (IF i \in I THEN <<Trim(TextOf(dom, i))>> ELSE <<>>)
         \o TrimmedTexts(dom, I, i + 1)

HeadingTags == <<"h1", "h2", "h3", "h4", "h5", "h6">>

MIN_PARAGRAPH == 20

MapClean(ss) == [i \in 1..Len(ss) |-> CleanText(ss[i])]

\* lines 69-157: the document built from the tree after the removals
Extract(dom, validUrl) ==
    LET titleText == Trim(TextOfAll(dom, ByTag(dom, "title")))
        h1Text == Trim(TextOfAll(dom, First(ByTag(dom, "h1"))))
        og == AttrContent(dom, "property=og:title")
        title == IF titleText # <<>> THEN titleText
                 ELSE IF h1Text # <<>> THEN h1Text
                 ELSE IF ~Falsy(og) THEN og.s
                 ELSE <<"Untitled">>
        headings == [l \in 1..6 |->
                        SelectSeq(TrimmedTexts(dom, ByTag(dom, HeadingTags[l]), 1),
                                  LAMBDA t : t # <<>>)]
        paragraphs == SelectSeq(TrimmedTexts(dom, ByTag(dom, "p"), 1),
                                LAMBDA t : t # <<>> /\ StrLen(t) > MIN_PARAGRAPH)
        mainContent == IF ByTag(dom, "article") # {}
                       THEN TextOfAll(dom, ByTag(dom, "article"))
                       ELSE IF ByTag(dom, "main") # {}
                       THEN TextOfAll(dom, ByTag(dom, "main"))
                       ELSE TextOfAll(dom, ByTag(dom, "body"))
        d1 == AttrContent(dom, "name=description")
        d2 == AttrContent(dom, "property=og:description")
        description == IF ~Falsy(d1) THEN [isNull |-> FALSE, s |-> CleanText(d1.s)]
                       ELSE IF ~Falsy(d2) THEN [isNull |-> FALSE, s |-> CleanText(d2.s)]
                       ELSE [isNull |-> TRUE, s |-> <<>>]
        cleanedText == CleanText(mainContent)
    IN  [url |-> validUrl,
         title |-> CleanText(title),
         description |-> description,
         headings |-> [l \in 1..6 |-> MapClean(headings[l])],
         paragraphs |-> MapClean(paragraphs),
         rawText |-> mainContent,
         cleanedText |-> cleanedText,
         totalParagraphs |-> Len(paragraphs),
         textLength |-> StrLen(cleanedText),
         rawTextLength |-> StrLen(mainContent)]

\* lines 46-159: parse, remove, extract
Crawl(dom, validUrl) == Extract(StripNoise(dom), validUrl)

----------------------------------------------------------------------------
(* One call of crawlWebsite *)

NoDoc == [url |-> <<>>, title |-> <<>>, description |-> [isNull |-> TRUE, s |-> <<>>],
          headings |-> [l \in 1..6 |-> <<>>], paragraphs |-> <<>>, rawText |-> <<>>,
          cleanedText |-> <<>>, totalParagraphs |-> 0, textLength |-> 0,
          rawTextLength |-> 0]

\* the url argument: its JavaScript type and, for a string, its characters;
\* "host" stands for the rest of a URL
UrlArg(t, chars) == [t |-> t, s |-> chars]

HTTP_PREFIX == <<"h", "t", "t", "p", ":", "/", "/">>
HTTPS_PREFIX == <<"h", "t", "t", "p", "s", ":", "/", "/">>

UrlCores ==
    { <<>>, <<"host">>, HTTP_PREFIX \o <<"host">>, HTTPS_PREFIX \o <<"host">>,
      HTTPS_PREFIX, HTTP_PREFIX,
      <<"h", "t", "t", "p", ":", "/", "host">>,
      <<"h", "t", "t", "p", "s", ":", "/", "host">>,
      <<"H", "T", "T", "P", ":", "/", "/", "host">>,
      <<"f", "t", "p", ":", "/", "/", "host">>,
      <<"h", "t", "t", "p", "s", "host">>,
      <<"/", "/", "host">>,
      <<"host", "/">> \o HTTP_PREFIX \o <<"host">> }

UrlPads == { <<>>, <<" ">>, <<"\n", "\t">> }

Urls ==
    { UrlArg("undefined", <<>>), UrlArg("number", <<>>) }
    \cup { UrlArg("string", l \o c \o r) : c \in UrlCores, l \in UrlPads, r \in UrlPads }

\* s.startsWith(p)
StartsWith(s, p) == Len(s) >= Len(p) /\ SubSeq(s, 1, Len(p)) = p

\* a normalization that knows the https:// prefix only
NormalizeUrlHttpsOnly(u) ==
    LET validUrl == Trim(u.s)
    IN  IF StartsWith(validUrl, HTTPS_PREFIX) THEN validUrl
        ELSE HTTPS_PREFIX \o validUrl

\* trim, then prepend https:// unless it starts with http:// or https://
NormalizeUrl(u) ==
    LET validUrl == Trim(u.s)
    IN  IF ~StartsWith(validUrl, HTTP_PREFIX) /\ ~StartsWith(validUrl, HTTPS_PREFIX)
        THEN HTTPS_PREFIX \o validUrl ELSE validUrl

\* validateStatus: (status) => status >= 200 && status < 400
ValidateStatus(status) == status >= 200 /\ status < 400

\* what the fetch meets: the final HTTP status (0: no response) with the
\* parsed body, or a failure with its code and whether error.request is set
PageSite(dom) == [status |-> 200, page |-> dom, code |-> "", hasRequest |-> FALSE]

FailSite(status, code, hasRequest) ==
    [status |-> status, page |-> <<>>, code |-> code, hasRequest |-> hasRequest]

FailSites ==
    { FailSite(st, "ERR_BAD_REQUEST", TRUE) : st \in {403, 404, 429, 500, 503, 400, 199} }
    \cup { FailSite(0, c, r) :
             c \in {"ENOTFOUND", "ECONNREFUSED", "ETIMEDOUT", "ECONNABORTED",
                    "CERT_HAS_EXPIRED", "UNABLE_TO_VERIFY_LEAF_SIGNATURE", "EOTHER"},
             r \in BOOLEAN }

\* a catch block without the branch for status 429
ClassifyWithout429(st, thrown) ==
    CASE thrown -> "other"
      [] st.status = 403 -> "forbidden"
      [] st.status = 404 -> "not_found"
      [] st.status >= 500 -> "server_error"
      [] st.status # 0 -> "other_http"
      [] st.hasRequest -> "no_response"
      [] st.code = "ENOTFOUND" -> "dns"
      [] st.code = "ECONNREFUSED" -> "connection_refused"
      [] st.code \in {"ETIMEDOUT", "ECONNABORTED"} -> "timeout"
      [] st.code \in {"CERT_HAS_EXPIRED", "UNABLE_TO_VERIFY_LEAF_SIGNATURE"} -> "ssl"
      [] OTHER -> "other"

\* lines 160-202: the catch block; thrown: an error raised by the function
\* itself, which has no response, request or code
Classify(st, thrown) ==
    CASE thrown -> "other"
      [] st.status = 403 -> "forbidden"
      [] st.status = 404 -> "not_found"
      [] st.status = 429 -> "rate_limited"
      [] st.status >= 500 -> "server_error"
      [] st.status # 0 -> "other_http"
      [] st.hasRequest -> "no_response"
      [] st.code = "ENOTFOUND" -> "dns"
      [] st.code = "ECONNREFUSED" -> "connection_refused"
      [] st.code \in {"ETIMEDOUT", "ECONNABORTED"} -> "timeout"
      [] st.code \in {"CERT_HAS_EXPIRED", "UNABLE_TO_VERIFY_LEAF_SIGNATURE"} -> "ssl"
      [] OTHER -> "other"

GenIdle ==
    /\ pc = "off"
    /\ hasKey = FALSE
    /\ text = [t |-> "undefined", len |-> 0, trimmed |-> 0]
    /\ count = Undefined
    /\ faqCount = 0
    /\ promptLen = -1
    /\ attempt = 0
    /\ lastError = NoError
    /\ inFlight = 0
    /\ log = <<>>
    /\ response = [content |-> <<>>, items |-> <<>>]
    /\ result = <<>>
    /\ error = NoError

CrawlIdle ==
    /\ cpc = "off"
    /\ url = UrlArg("undefined", <<>>)
    /\ site = FailSite(0, "", FALSE)
    /\ fetches = <<>>
    /\ doc = NoDoc
    /\ crawlError = "none"

ApiIdle ==
    /\ reqs = <<>>
    /\ CrawledPage = <<>>
    /\ FAQ = <<>>

\* no Dashboard is rendered
NoForm == [url |-> <<>>, pc |-> "idle"]

NoDash ==
    [mounted |-> FALSE, faqs |-> <<>>, loading |-> FALSE,
     currentUrl |-> UrlArg("null", <<>>), refreshKey |-> 0,
     storage |-> UrlArg("null", <<>>), calls |-> <<>>, form |-> NoForm,
     submits |-> 0, shownBy |-> 0]

DashIdle == dash = NoDash

\* lines 10-44: the url check, the normalization, the fetch
CrawlStart ==
    /\ cpc = "idle"
    /\ IF url.t # "string" \/ url.s = <<>>
       THEN /\ cpc' = "failed"
            /\ crawlError' = Classify(site, TRUE)
            /\ fetches' = fetches
       ELSE /\ cpc' = "fetching"
            /\ fetches' = Append(fetches, NormalizeUrl(url))
            /\ crawlError' = crawlError
    /\ UNCHANGED <<url, site, doc, genVars, apiVars, dashVars>>

\* lines 46-159: the fetch resolved
FetchResolved ==
    /\ cpc = "fetching"
    /\ site.status # 0
    /\ ValidateStatus(site.status)
    /\ doc' = Crawl(site.page, fetches[Len(fetches)])
    /\ cpc' = "done"
    /\ UNCHANGED <<url, site, fetches, crawlError, genVars, apiVars, dashVars>>

\* a rejected fetch that is tried again, up to three fetches
FetchRejectedRetry ==
    /\ cpc = "fetching"
    /\ site.status = 0 \/ ~ValidateStatus(site.status)
    /\ IF Len(fetches) < 3
       THEN /\ fetches' = Append(fetches, fetches[Len(fetches)])
            /\ UNCHANGED <<cpc, crawlError>>
       ELSE /\ crawlError' = Classify(site, FALSE)
            /\ cpc' = "failed"
            /\ fetches' = fetches
    /\ UNCHANGED <<url, site, doc, genVars, apiVars, dashVars>>

\* lines 160-202: the fetch was rejected
FetchRejected ==
    /\ cpc = "fetching"
    /\ site.status = 0 \/ ~ValidateStatus(site.status)
    /\ crawlError' = Classify(site, FALSE)
    /\ cpc' = "failed"
    /\ UNCHANGED <<url, site, fetches, doc, genVars, apiVars, dashVars>>

CrawlNext == CrawlStart \/ FetchResolved \/ FetchRejected

----------------------------------------------------------------------------
(* Crawls of pages with elements that the removals are aimed at *)

NoiseTags == {"script", "style", "nav", "footer", "header", "aside", "noscript",
              "iframe", "svg"}
NoiseMarks == {".nav", ".navbar", ".footer", ".header", ".sidebar", ".menu",
               "role=navigation", "role=banner", "role=contentinfo"}

Kind(tag, mark) == [tag |-> tag, mark |-> mark]

NoiseKinds ==
    { Kind(t, "none") : t \in NoiseTags }
    \cup { Kind(t, m) : t \in {"div", "p"}, m \in NoiseMarks }

ContentKinds ==
    { Kind(t, "none") : t \in {"div", "p", "h1", "article", "main", "title"} }

\* the depths of n elements in document order, the first a child of body
BodyShapes(n) ==
    { d \in [1..n -> 2..(n + 1)] :
        /\ n > 0 => d[1] = 2
        /\ \A j \in 1..(n - 1) : d[j + 1] <= d[j] + 1 }

\* element j of a body carries the word j as its text
WordOf(j) == <<"w1", "w2", "w3", "w4", "w5">>[j]

PageOf(headEls, bodyEls) ==
    <<El("html", "none", 0, <<>>), El("head", "none", 1, <<>>)>> \o headEls
    \o <<El("body", "none", 1, <<>>)>> \o bodyEls

\* a page of n body elements with depths d and kinds k, of which element at
\* (if at > 0) is of the kind aimed, one that the removals are aimed at
NoisePage(h, n, d, k, at, aimed) ==
    PageOf(h, [j \in 1..n |->
                 LET kind == IF j = at THEN aimed ELSE k[j]
                 IN  El(kind.tag, kind.mark, d[j], <<WordOf(j)>>)])

HeadChoices == { <<>>, <<El("title", "none", 2, <<"wt">>)>> }

NoiseInit ==
    /\ cpc = "idle"
    /\ \/ /\ url = UrlArg("string", <<"host">>)
          /\ \/ \E n \in 0..MaxNodes, h \in HeadChoices :
                \E d \in BodyShapes(n), k \in [1..n -> ContentKinds] :
                   \/ site = PageSite(NoisePage(h, n, d, k, 0, Kind("div", "none")))
                   \/ \E at \in 1..n, aimed \in NoiseKinds :
                         site = PageSite(NoisePage(h, n, d, k, at, aimed))
             \/ site \in FailSites
       \/ /\ url = UrlArg("string", <<>>)
          /\ site = FailSite(404, "ERR_BAD_REQUEST", TRUE)
    /\ fetches = <<>>
    /\ doc = NoDoc
    /\ crawlError = "none"
    /\ GenIdle
    /\ ApiIdle
    /\ DashIdle

SpecNoise == NoiseInit /\ [][CrawlNext]_vars

----------------------------------------------------------------------------
(* Crawls of pages whose texts and attributes hold every short string *)

Alphabet == {"a", "word", " ", "\t", "\r", "\n", "nbsp", "gap"}

Strings(n) == UNION { [1..m -> Alphabet] : m \in 0..n }

\* a page with s as its description, its og:title, a heading and a paragraph,
\* and with s between two letters as a second heading
StringPage(s) ==
    PageOf(<<Meta("name=description", s), Meta("property=og:title", s)>>,
           <<El("h1", "none", 2, s), El("p", "none", 2, s),
             El("h2", "none", 2, <<"a">> \o s \o <<"a">>)>>)

CleanInit ==
    /\ cpc = "idle"
    /\ \/ /\ url = UrlArg("string", <<"host">>)
          /\ \/ \E s \in Strings(MaxLen) : site = PageSite(StringPage(s))
             \/ site \in FailSites
       \/ /\ url = UrlArg("number", <<>>)
          /\ site = FailSite(404, "ERR_BAD_REQUEST", TRUE)
    /\ fetches = <<>>
    /\ doc = NoDoc
    /\ crawlError = "none"
    /\ GenIdle
    /\ ApiIdle
    /\ DashIdle

SpecClean == CleanInit /\ [][CrawlNext]_vars

----------------------------------------------------------------------------
(* Crawls with every url argument and every outcome of the fetch *)

\* a fetch that ends with the HTTP status st; the error of a status that
\* validateStatus refuses carries the response and the request
StatusSite(st) ==
    [status |-> st,
     page |-> PageOf(<<El("title", "none", 2, <<"wt">>)>>, <<El("p", "none", 2, <<"w1">>)>>),
     code |-> IF st >= 500 THEN "ERR_BAD_RESPONSE" ELSE "ERR_BAD_REQUEST",
     hasRequest |-> TRUE]

FetchInit ==
    /\ cpc = "idle"
    /\ \/ /\ url \in Urls
          /\ site \in {StatusSite(200), StatusSite(404), FailSite(0, "ENOTFOUND", TRUE)}
       \/ /\ url = UrlArg("string", <<"host">>)
          /\ site \in { StatusSite(st) : st \in 100..599 } \cup FailSites
    /\ fetches = <<>>
    /\ doc = NoDoc
    /\ crawlError = "none"
    /\ GenIdle
    /\ ApiIdle
    /\ DashIdle

SpecFetch == FetchInit /\ [][CrawlNext]_vars

----------------------------------------------------------------------------
(* One call of generateFaqs.  Each action is the code that runs between    *)
(* two awaits.                                                             *)

Ev(e, ms) == [e |-> e, ms |-> ms]

NoResponse == [content |-> <<>>, items |-> <<>>]

\* the completion texts tried with a list: every form for a well-formed
\* list, the form the prompt asks for with a malformed one
ContentsFor(d) == IF d.at = 0 THEN Contents ELSE {PlainContent}

\* the count arguments of the calls: omitted, 3, 7.5
CallCounts == { Undefined, Fin(30), Fin(75) }

\* Math.pow(2, attempt) * 1000
Delay(a) == (2 ^ a) * BASE_DELAY_MS

GenInit ==
    /\ pc = "idle"
    /\ hasKey \in BOOLEAN
    /\ text \in Texts
    /\ count \in CallCounts
    /\ faqCount = 0
    /\ promptLen = -1
    /\ attempt = 0
    /\ lastError = NoError
    /\ inFlight = 0
    /\ log = <<>>
    /\ response = NoResponse
    /\ result = <<>>
    /\ error = NoError
    /\ CrawlIdle
    /\ ApiIdle
    /\ DashIdle

Fail(e) ==
    /\ pc' = "failed"
    /\ error' = CatchBlock(e)

\* lines 5-70 and 149-165: the checks, the clamp, the prompt, the first request
Call ==
    /\ pc = "idle"
    /\ IF ~hasKey
       THEN /\ Fail(Thrown("Error", "no_api_key", -1))
            /\ UNCHANGED <<faqCount, promptLen, inFlight, log>>
       ELSE IF TextRejected(text)
       THEN /\ Fail(Thrown("Error", "text_required", -1))
            /\ UNCHANGED <<faqCount, promptLen, inFlight, log>>
       ELSE /\ faqCount' = EffectiveCount(count)
            /\ promptLen' = TruncatedLen(text)
            /\ inFlight' = inFlight + 1
            /\ log' = Append(log, Ev("request", 0))
            /\ pc' = "inflight"
            /\ error' = error
    /\ UNCHANGED <<hasKey, text, count, attempt, lastError, response, result, crawlVars, apiVars, dashVars>>

RequestResolvedRetry ==
    /\ pc = "inflight"
    /\ \E m \in 0..(faqCount + MaxExtra) :
       \E d1 \in FirstDefects(m) :
       \E d2 \in SecondDefects(m, d1) :
       \E c \in ContentsFor(d1) :
         LET r == [content |-> c, items |-> Items(m, d1, d2)]
             out == ProcessResponse(r, faqCount)
         IN  /\ response' = r
             /\ IF out.ok
                THEN /\ pc' = "done"
                     /\ result' = out.faqs
                     /\ log' = Append(log, Ev("resolved", 0))
                ELSE /\ pc' = "backoff"
                     /\ result' = result
                     /\ log' = log \o <<Ev("resolved", 0), Ev("sleep", Delay(attempt))>>
    /\ inFlight' = inFlight - 1
    /\ lastError' = NoError
    /\ UNCHANGED <<hasKey, text, count, faqCount, promptLen, attempt, error, crawlVars,
                   apiVars, dashVars>>

\* lines 167 and 72-116: the request resolved; parse, validate, reconcile
RequestResolved ==
    /\ pc = "inflight"
    /\ \E m \in 0..(faqCount + MaxExtra) :
       \E d1 \in FirstDefects(m) :
       \E d2 \in SecondDefects(m, d1) :
       \E c \in ContentsFor(d1) :
         LET r == [content |-> c, items |-> Items(m, d1, d2)]
             out == ProcessResponse(r, faqCount)
         IN  /\ response' = r
             /\ IF out.ok
                THEN /\ pc' = "done"
                     /\ result' = out.faqs
                     /\ error' = error
                ELSE /\ Fail(out.err)
                     /\ result' = result
    /\ inFlight' = inFlight - 1
    /\ lastError' = NoError
    /\ log' = Append(log, Ev("resolved", 0))
    /\ UNCHANGED <<hasKey, text, count, faqCount, promptLen, attempt, crawlVars, apiVars, dashVars>>

IsClientErrorExcept429(e) == e.status >= 400 /\ e.status < 500 /\ e.status # 429

IsClientOrServerError(e) == e.status >= 400

\* error.status >= 400 && error.status < 500
IsClientError(e) == e.status >= 400 /\ e.status < 500

MayRetryOnceMore(a) == a <= RETRIES

\* attempt < retries
MayRetry(a) == a < RETRIES

\* lines 168-185: the request was rejected; rethrow, back off or give up
RequestRejected ==
    /\ pc = "inflight"
    /\ \E e \in ProviderErrors :
         /\ lastError' = e
         /\ IF IsClientError(e)
            THEN /\ Fail(e)
                 /\ log' = Append(log, Ev("rejected", 0))
            ELSE IF MayRetry(attempt)
            THEN /\ pc' = "backoff"
                 /\ log' = log \o <<Ev("rejected", 0), Ev("sleep", Delay(attempt))>>
                 /\ error' = error
            ELSE /\ Fail(e)
                 /\ log' = Append(log, Ev("rejected", 0))
    /\ inFlight' = inFlight - 1
    /\ UNCHANGED <<hasKey, text, count, faqCount, promptLen, attempt, response, result,
                   crawlVars, apiVars, dashVars>>

\* lines 179-180, 152-165 and 185: the timer fired; attempt++, the loop
\* condition, then the next request or throw lastError.  lastError is
\* overwritten by the next catch before it is read again.
TimerFired ==
    /\ pc = "backoff"
    /\ attempt' = attempt + 1
    /\ IF attempt + 1 <= RETRIES
       THEN /\ inFlight' = inFlight + 1
            /\ log' = Append(log, Ev("request", 0))
            /\ pc' = "inflight"
            /\ lastError' = NoError
            /\ error' = error
       ELSE /\ Fail(lastError)
            /\ UNCHANGED <<inFlight, log, lastError>>
    /\ UNCHANGED <<hasKey, text, count, faqCount, promptLen, response, result, crawlVars, apiVars, dashVars>>

GenNext == Call \/ RequestResolved \/ RequestRejected \/ TimerFired

SpecGen == GenInit /\ [][GenNext]_vars

----------------------------------------------------------------------------
(* The clamp of the count argument, over a wide range of arguments: the    *)
(* first step of a call with a credential and a usable text                *)

CountInputs ==
    { Undefined, NaN, PosInf, NegInf } \cup { Fin(v) : v \in (0 - MaxTenths)..MaxTenths }

CountInit ==
    /\ pc = "idle"
    /\ hasKey = TRUE
    /\ text = [t |-> "string", len |-> 14, trimmed |-> 12]
    /\ count \in CountInputs
    /\ faqCount = 0
    /\ promptLen = -1
    /\ attempt = 0
    /\ lastError = NoError
    /\ inFlight = 0
    /\ log = <<>>
    /\ response = NoResponse
    /\ result = <<>>
    /\ error = NoError
    /\ CrawlIdle
    /\ ApiIdle
    /\ DashIdle

SpecCount == CountInit /\ [][Call]_vars

----------------------------------------------------------------------------
(* The HTTP API: crawlWebsiteController, generateFaqsFromContentController *)
(* and saveFaqsController over the CrawledPage and FAQ collections.  Each  *)
(* action is the code of one handler between two awaits.                   *)

MIN_CONTENT == 50

MaxReqs == 2         \* requests the server receives

SaveItem(q, a, st) == [question |-> q, answer |-> a, status |-> st]

SaveBody(isArray, items, sourceUrl) ==
    [isArray |-> isArray, faqs |-> items, sourceUrl |-> sourceUrl]

NoBody == SaveBody(FALSE, <<>>, VUndef)
NoPage == [url |-> <<>>, raw |-> -1, clean |-> -1]

\* a request: its route and body, the position of its handler, what the
\* handler holds (the crawled page, the documents given to insertMany) and
\* what it did (its reply, the page it saved, the generator call it made)
Req(op, u, body) ==
    [op |-> op, url |-> u, body |-> body, pc |-> "received", page |-> NoPage,
     docs |-> <<>>, reply |-> 0, savedPage |-> FALSE, genCalled |-> FALSE,
     inserted |-> 0]

ApiUrls ==
    { UrlArg("undefined", <<>>), UrlArg("string", <<"host">>),
      UrlArg("string", HTTPS_PREFIX \o <<"host">>) }

SaveItems ==
    { SaveItem(VStr(<<"Q">>), VStr(<<" ", "A">>), st) :
        st \in { VUndef, VStr(<<>>), VStr(<<"published">>), VStr(<<"bogus">>) } }
    \cup { SaveItem(VStr(<<" ">>), VStr(<<"A">>), VStr(<<"published">>)),
           SaveItem(VStr(<<"Q">>), VUndef, VStr(<<"published">>)) }

SaveBodies ==
    { SaveBody(FALSE, <<>>, VStr(<<"host">>)),
      SaveBody(TRUE, <<SaveItem(VStr(<<"Q">>), VStr(<<"A">>), VUndef)>>, VUndef) }
    \cup { SaveBody(TRUE, <<it>>, VStr(<<"host">>)) : it \in SaveItems }

Requests ==
    { Req(op, u, NoBody) : op \in {"crawl", "generate-faqs"}, u \in ApiUrls }
    \cup { Req("save", UrlArg("undefined", <<>>), b) : b \in SaveBodies }

FaqDoc(q, a, src, st) == [question |-> q, answer |-> a, sourceUrl |-> src, status |-> st]

\* faqController.js 173-178: status: faq.status || "draft"
SaveDocs(body) ==
    [i \in 1..Len(body.faqs) |->
        LET faq == body.faqs[i]
        IN  FaqDoc(faq.question, faq.answer, body.sourceUrl,
                   IF Truthy(faq.status) THEN faq.status ELSE VStr(<<"draft">>))]

\* a mapping that creates the generated records as published
GenerateDocsPublished(gen, u) ==
    [i \in 1..Len(gen) |->
        FaqDoc(gen[i].question, gen[i].answer, VStr(u), VStr(<<"published">>))]

\* faqController.js 117-122: status: "draft"
GenerateDocs(gen, u) ==
    [i \in 1..Len(gen) |->
        FaqDoc(gen[i].question, gen[i].answer, VStr(u), VStr(<<"draft">>))]

\* faqSchema: a required, trimmed String
RequiredString(v) == v.t = "string" /\ Trim(v.s) # <<>>

\* a schema without the enum of status
ValidFaqAnyStatus(d) ==
    /\ RequiredString(d.question)
    /\ RequiredString(d.answer)
    /\ RequiredString(d.sourceUrl)
    /\ d.status.t \in {"undefined", "string"}

\* faqSchema: status is absent (the default applies) or one of the enum
ValidFaq(d) ==
    /\ RequiredString(d.question)
    /\ RequiredString(d.answer)
    /\ RequiredString(d.sourceUrl)
    /\ d.status.t = "undefined"
       \/ (d.status.t = "string" /\ d.status.s \in {<<"draft">>, <<"published">>})

\* createdAt: default Date.now, as the number of the insertion: the
\* documents of one insertMany get the same value
Now(coll) ==
    IF coll = <<>> THEN 1
    ELSE 1 + (CHOOSE t \in { coll[i].createdAt : i \in 1..Len(coll) } :
                 \A i \in 1..Len(coll) : coll[i].createdAt <= t)

\* the record stored for a valid document
StoredFaq(d, at) ==
    [question |-> Trim(d.question.s), answer |-> Trim(d.answer.s),
     sourceUrl |-> Trim(d.sourceUrl.s),
     status |-> IF d.status.t = "undefined" THEN "draft" ELSE d.status.s[1],
     createdAt |-> at]

\* FAQ.insertMany(docs): every document is validated first, and one that
\* fails makes the call throw with nothing inserted
InsertMany(coll, docs) ==
    IF \A i \in 1..Len(docs) : ValidFaq(docs[i])
    THEN [ok |-> TRUE,
          coll |-> coll \o [i \in 1..Len(docs) |-> StoredFaq(docs[i], Now(coll))]]
    ELSE [ok |-> FALSE, coll |-> coll]

\* res.status(code).json(...): the handler is over, and its request body
\* and the documents it held are dropped
Done(h, code) ==
    [h EXCEPT !.pc = "done", !.reply = code, !.docs = <<>>, !.body = NoBody,
              !.url = UrlArg("undefined", <<>>)]

\* the handler from its start to its first await
Accept(q) ==
    IF q.op = "save"
    THEN IF ~q.body.isArray THEN Done(q, 400)
         ELSE IF ~Truthy(q.body.sourceUrl) THEN Done(q, 400)
         ELSE IF \E i \in 1..Len(q.body.faqs) :
                    ~Truthy(q.body.faqs[i].question) \/ ~Truthy(q.body.faqs[i].answer)
              THEN Done(q, 400)
         ELSE [q EXCEPT !.pc = "inserting", !.docs = SaveDocs(q.body)]
    ELSE IF q.url.t = "undefined" \/ (q.url.t = "string" /\ q.url.s = <<>>)
         THEN Done(q, 400)
    ELSE [q EXCEPT !.pc = "crawling"]

\* crawlWebsite(u) as one step, when the fetch meets st
CrawlWebsite(u, st) ==
    IF u.t # "string" \/ u.s = <<>>
    THEN [ok |-> FALSE, doc |-> NoDoc, kind |-> Classify(st, TRUE)]
    ELSE IF st.status # 0 /\ ValidateStatus(st.status)
    THEN [ok |-> TRUE, doc |-> Crawl(st.page, NormalizeUrl(u)), kind |-> "none"]
    ELSE [ok |-> FALSE, doc |-> NoDoc, kind |-> Classify(st, FALSE)]

\* the catch blocks of the two crawling controllers: 400 for a message that
\* holds "HTTP", "Network" or "DNS", 500 for the others
CrawlErrorStatus(kind) ==
    IF kind \in {"forbidden", "not_found", "rate_limited", "server_error",
                 "other_http", "no_response", "dns"}
    THEN 400 ELSE 500

Letters(n) == [i \in 1..n |-> "a"]

\* body texts of 0, 49 and 50 characters, and texts that are longer as
\* fetched than trimmed or cleaned
ContentTexts ==
    { <<>>,
      <<"word", "word">> \o Letters(8),
      <<" ", "word", "word">> \o Letters(7) \o <<"\n">>,
      <<"word", "gap", "word">> \o Letters(6),
      <<"word", "gap", "word">> \o Letters(7) }

ApiSites ==
    { PageSite(PageOf(<<>>, <<El("p", "none", 2, t)>>)) : t \in ContentTexts }
    \cup { StatusSite(404), FailSite(0, "ECONNREFUSED", FALSE) }

\* a content check that looks at rawText only
TooShortRawOnly(d) ==
    \/ d.rawText = <<>>
    \/ StrLen(Trim(d.rawText)) < MIN_CONTENT

\* faqController.js 17-22 and 91-96
TooShort(d) ==
    \/ d.rawText = <<>>
    \/ d.cleanedText = <<>>
    \/ StrLen(Trim(d.rawText)) < MIN_CONTENT
    \/ StrLen(Trim(d.cleanedText)) < MIN_CONTENT

\* what generateFaqs(cleanedText, undefined) returns or throws
ApiGenOutcomes ==
    LET n == EffectiveCount(Undefined)
        outs == { ProcessResponse([content |-> PlainContent,
                                   items |-> Items(m, NoDefect, NoDefect)], n)
                    : m \in {n - 1, n} }
    IN  { [o EXCEPT !.err = CatchBlock(o.err)] : o \in outs }
        \cup { [ok |-> FALSE, faqs |-> <<>>,
                err |-> CatchBlock([name |-> "APIError", cause |-> "provider",
                                    index |-> -1, status |-> 429, resp |-> 1,
                                    hasMsg |-> TRUE])] }

\* the outcome of crawlWebsite for each argument and each site
CrawlOutcomes == [u \in ApiUrls, st \in ApiSites |-> CrawlWebsite(u, st)]

\* the handlers of the requests at their first await
Accepted == { Accept(q) : q \in Requests }

\* a request arrives and its handler runs to its first await
Receive ==
    /\ Len(reqs) < MaxReqs
    /\ \E h \in Accepted : reqs' = Append(reqs, h)
    /\ UNCHANGED <<CrawledPage, FAQ, genVars, crawlVars, dashVars>>

\* crawlWebsite returns or throws: lines 15-33 and 89-103
CrawlReturns ==
    /\ \E r \in 1..Len(reqs), st \in ApiSites :
         LET h == reqs[r]
             out == CrawlOutcomes[h.url, st]
             page == [url |-> out.doc.url,
                      raw |-> StrLen(Trim(out.doc.rawText)),
                      clean |-> StrLen(Trim(out.doc.cleanedText))]
         IN  /\ h.pc = "crawling"
             /\ reqs' = [reqs EXCEPT ![r] =
                            IF ~out.ok THEN Done(h, CrawlErrorStatus(out.kind))
                            ELSE IF TooShort(out.doc)
                            THEN Done([h EXCEPT !.page = page], 400)
                            ELSE [h EXCEPT !.page = page,
                                           !.url = UrlArg("undefined", <<>>),
                                           !.pc = IF h.op = "crawl" THEN "saving"
                                                  ELSE "finding"]]
    /\ UNCHANGED <<CrawledPage, FAQ, genVars, crawlVars, dashVars>>

\* CrawledPage.findOne({ url }) returns: lines 103-114
FindReturns ==
    /\ \E r \in 1..Len(reqs) :
         LET h == reqs[r]
             found == \E i \in 1..Len(CrawledPage) : CrawledPage[i].url = h.page.url
         IN  /\ h.pc = "finding"
             /\ reqs' = [reqs EXCEPT ![r] =
                            IF found
                            THEN [h EXCEPT !.pc = "generating", !.genCalled = TRUE]
                            ELSE [h EXCEPT !.pc = "saving"]]
    /\ UNCHANGED <<CrawledPage, FAQ, genVars, crawlVars, dashVars>>

\* crawledPage.save() returns: lines 33-44 and 111-114
PageSaved ==
    /\ \E r \in 1..Len(reqs) :
         LET h == reqs[r]
             saved == [h EXCEPT !.savedPage = TRUE]
         IN  /\ h.pc = "saving"
             /\ CrawledPage' = Append(CrawledPage, h.page)
             /\ reqs' = [reqs EXCEPT ![r] =
                            IF h.op = "crawl" THEN Done(saved, 200)
                            ELSE [saved EXCEPT !.pc = "generating", !.genCalled = TRUE]]
    /\ UNCHANGED <<FAQ, genVars, crawlVars, dashVars>>

\* a catch block that inserts what the failed generation left behind
GenReturnsKeepPartial ==
    /\ \E r \in 1..Len(reqs), out \in ApiGenOutcomes :
         LET h == reqs[r]
             partial == GenerateDocs(Items(1, NoDefect, NoDefect), h.page.url)
         IN  /\ h.pc = "generating"
             /\ reqs' = [reqs EXCEPT ![r] =
                            IF out.ok
                            THEN [h EXCEPT !.pc = "inserting",
                                           !.docs = GenerateDocs(out.faqs, h.page.url)]
                            ELSE Done(h, IF out.err.wrap = "rate_limit" THEN 429
                                         ELSE 500)]
             /\ FAQ' = IF out.ok THEN FAQ ELSE InsertMany(FAQ, partial).coll
    /\ UNCHANGED <<CrawledPage, genVars, crawlVars, dashVars>>

\* generateFaqs returns or throws: lines 114-123 and 137-149
GenReturns ==
    /\ \E r \in 1..Len(reqs), out \in ApiGenOutcomes :
         LET h == reqs[r]
         IN  /\ h.pc = "generating"
             /\ reqs' = [reqs EXCEPT ![r] =
                            IF out.ok
                            THEN [h EXCEPT !.pc = "inserting",
                                           !.docs = GenerateDocs(out.faqs, h.page.url)]
                            ELSE Done(h, IF out.err.wrap = "rate_limit" THEN 429
                                         ELSE 500)]
    /\ UNCHANGED <<CrawledPage, FAQ, genVars, crawlVars, dashVars>>

\* FAQ.insertMany returns or throws: lines 116-136 and 172-188
InsertDone ==
    /\ \E r \in 1..Len(reqs) :
         LET h == reqs[r]
             ins == InsertMany(FAQ, h.docs)
         IN  /\ h.pc = "inserting"
             /\ FAQ' = ins.coll
             /\ reqs' = [reqs EXCEPT ![r] =
                            IF ins.ok
                            THEN Done([h EXCEPT !.inserted = Len(h.docs)], 201)
                            ELSE Done(h, 500)]
    /\ UNCHANGED <<CrawledPage, genVars, crawlVars, dashVars>>

ApiNext ==
    Receive \/ CrawlReturns \/ FindReturns \/ PageSaved \/ GenReturns \/ InsertDone

ApiInit == GenIdle /\ CrawlIdle /\ ApiIdle /\ DashIdle

SpecApi == ApiInit /\ [][ApiNext]_vars

----------------------------------------------------------------------------
(* The FAQ records over their life: saveFaqsController,                    *)
(* generateFaqsFromContentController, updateFAQController,                 *)
(* publishFAQController and exportFaqsController over the FAQ collection   *)

MaxFaqReqs == 3      \* requests the server receives

\* req.params.id: the hexadecimal id of record n, or a string that is none
FaqId(n) == [t |-> "oid", n |-> n]
BadId == [t |-> "malformed", n |-> 0]

\* the fields of req.body that updateFAQController reads
Upd(q, a, u, st) == [question |-> q, answer |-> a, sourceUrl |-> u, status |-> st]
NoUpd == Upd(VUndef, VUndef, VUndef, VUndef)

\* a request on one record or on the export, at the first await of its
\* handler: the document findById gave it, the paths it modified
FaqReq(op, id, upd, format) ==
    [op |-> op, id |-> id, upd |-> upd, format |-> format,
     pc |-> IF op = "export" THEN "exporting" ELSE "finding-faq",
     loaded |-> "none", mods |-> NoUpd, reply |-> 0, exported |-> <<>>,
     inserted |-> 0]

Updates ==
    { Upd(VUndef, VUndef, VUndef, VStr(<<"bogus">>)),
      Upd(VStr(<<"Q2">>), VStr(<<"A2">>), VStr(<<"host2">>), VStr(<<"bogus">>)),
      Upd(VUndef, VUndef, VUndef, VStr(<<"draft">>)),
      Upd(VUndef, VUndef, VUndef, VStr(<<"published">>)),
      Upd(VStr(<<" ", "Q2">>), VUndef, VUndef, VUndef),
      Upd(VStr(<<" ">>), VUndef, VUndef, VStr(<<"draft">>)) }

\* the id of a record that is never stored
AbsentId == FaqId(99)

FaqRequests ==
    { FaqReq("update", FaqId(1), u, "") : u \in Updates }
    \cup { FaqReq("update", i, Upd(VStr(<<"Q2">>), VUndef, VUndef, VStr(<<"draft">>)), "")
             : i \in {AbsentId, BadId} }
    \cup { FaqReq("publish", i, NoUpd, "") : i \in {FaqId(1), AbsentId, BadId} }
    \cup { FaqReq("export", BadId, NoUpd, f) : f \in {"json", "csv"} }

QUOTE == "\""

FaqSaveBodies ==
    { SaveBody(TRUE, <<SaveItem(VStr(<<"Q", QUOTE>>), VStr(<<"A">>), st)>>,
               VStr(<<"host">>)) :
        st \in { VUndef, VStr(<<"published">>), VStr(<<"bogus">>) } }
    \cup { SaveBody(TRUE, <<SaveItem(VStr(<<"Q">>), VStr(<<"A">>), VStr(<<"published">>)),
                            SaveItem(VStr(<<"Q3">>), VStr(<<"A">>), VStr(<<"published">>))>>,
                     VStr(<<"host">>)) }

\* the handlers of the requests at their first await
FaqAccepted ==
    FaqRequests
    \cup { Accept(Req("save", UrlArg("undefined", <<>>), b)) : b \in FaqSaveBodies }
    \cup { Accept(Req("generate-faqs", UrlArg("string", <<"host">>), NoBody)) }

ReceiveFaq ==
    /\ Len(reqs) < MaxFaqReqs
    /\ \E h \in FaqAccepted : reqs' = Append(reqs, h)
    /\ UNCHANGED <<CrawledPage, FAQ, genVars, crawlVars, dashVars>>

\* res.status(code).json(...) of these handlers
FaqDone(h, code) ==
    [h EXCEPT !.pc = "done", !.reply = code, !.loaded = "none", !.mods = NoUpd]

StatusAny(v) == v.t = "string"

\* !(status !== "draft" && status !== "published")
StatusAllowed(v) == v = VStr(<<"draft">>) \/ v = VStr(<<"published">>)

\* faq.path = value on the document found: the setter trims, and a value
\* equal to the one the document holds leaves the path unmodified
SetPath(old, v) ==
    IF v.t = "undefined" THEN VUndef
    ELSE IF v.t = "string" /\ Trim(v.s) = old THEN VUndef
    ELSE IF v.t = "string" THEN VStr(Trim(v.s))
    ELSE v

\* lines 222-232: the assignments of updateFAQController
UpdateMods(f, u) ==
    Upd(SetPath(f.question, u.question), SetPath(f.answer, u.answer),
        SetPath(f.sourceUrl, u.sourceUrl),
        IF u.status.t = "string" THEN SetPath(<<f.status>>, u.status) ELSE u.status)

\* line 262: faq.status = "published"
PublishMods(f) ==
    Upd(VUndef, VUndef, VUndef, SetPath(<<f.status>>, VStr(<<"published">>)))

\* FAQ.findById returns or throws: lines 217-234 and 253-263
FaqFound ==
    /\ \E r \in 1..Len(reqs) :
         LET h == reqs[r]
         IN  /\ h.pc = "finding-faq"
             /\ reqs' = [reqs EXCEPT ![r] =
                   IF h.id.t = "malformed" THEN FaqDone(h, 400)
                   ELSE IF h.id.n > Len(FAQ) THEN FaqDone(h, 404)
                   ELSE IF h.op = "publish"
                   THEN [h EXCEPT !.pc = "saving-faq",
                                  !.loaded = FAQ[h.id.n].status,
                                  !.mods = PublishMods(FAQ[h.id.n])]
                   ELSE IF h.upd.status.t # "undefined" /\ ~StatusAllowed(h.upd.status)
                   THEN FaqDone(h, 400)
                   ELSE [h EXCEPT !.pc = "saving-faq",
                                  !.loaded = FAQ[h.id.n].status,
                                  !.mods = UpdateMods(FAQ[h.id.n], h.upd)]]
    /\ UNCHANGED <<CrawledPage, FAQ, genVars, crawlVars, dashVars>>

\* the validators of the modified paths
ModsValid(m) ==
    /\ m.question.t = "undefined" \/ RequiredString(m.question)
    /\ m.answer.t = "undefined" \/ RequiredString(m.answer)
    /\ m.sourceUrl.t = "undefined" \/ RequiredString(m.sourceUrl)
    /\ m.status.t = "undefined" \/ StatusAllowed(m.status)

\* the update that save() sends: the modified paths only
Apply(f, m) ==
    [question |-> IF m.question.t = "undefined" THEN f.question ELSE m.question.s,
     answer |-> IF m.answer.t = "undefined" THEN f.answer ELSE m.answer.s,
     sourceUrl |-> IF m.sourceUrl.t = "undefined" THEN f.sourceUrl ELSE m.sourceUrl.s,
     status |-> IF m.status.t = "undefined" THEN f.status ELSE m.status.s[1],
     createdAt |-> f.createdAt]

\* faq.save() returns or throws: lines 234-245 and 263-271
FaqSaved ==
    /\ \E r \in 1..Len(reqs) :
         LET h == reqs[r]
         IN  /\ h.pc = "saving-faq"
             /\ IF ModsValid(h.mods)
                THEN /\ FAQ' = [FAQ EXCEPT ![h.id.n] = Apply(FAQ[h.id.n], h.mods)]
                     /\ reqs' = [reqs EXCEPT ![r] = FaqDone(h, 200)]
                ELSE /\ FAQ' = FAQ
                     /\ reqs' = [reqs EXCEPT ![r] = FaqDone(h, 500)]
    /\ UNCHANGED <<CrawledPage, genVars, crawlVars, dashVars>>

AllIdx(coll) == 1..Len(coll)

\* FAQ.find({ status: "published" })
PublishedIdx(coll) == { i \in 1..Len(coll) : coll[i].status = "published" }

\* .sort({ createdAt: -1 }): the orders of the records found, newest first;
\* records of the same createdAt come in any order
Sorted(coll, found) ==
    { o \in [1..Cardinality(found) -> found] :
        /\ \A j, k \in 1..Cardinality(found) : o[j] = o[k] => j = k
        /\ \A k \in 1..(Cardinality(found) - 1) :
             coll[o[k]].createdAt >= coll[o[k + 1]].createdAt }

\* `"${s.replace(/"/g, '""')}"`
RECURSIVE DoubleQuotes(_)
DoubleQuotes(s) ==
    IF s = <<>> THEN <<>>
    ELSE (IF Head(s) = QUOTE THEN <<QUOTE, QUOTE>> ELSE <<Head(s)>>)
         \o DoubleQuotes(Tail(s))

Quoted(s) == <<QUOTE>> \o DoubleQuotes(s) \o <<QUOTE>>

\* lines 282-308: a row of the CSV, or an item of the JSON
ExportItem(f, format) ==
    IF format = "csv"
    THEN [question |-> Quoted(f.question), answer |-> Quoted(f.answer),
          sourceUrl |-> <<QUOTE>> \o f.sourceUrl \o <<QUOTE>>, createdAt |-> f.createdAt]
    ELSE [question |-> f.question, answer |-> f.answer, sourceUrl |-> f.sourceUrl,
          createdAt |-> f.createdAt]

\* FAQ.find(...).sort(...).select(...) returns: lines 278-308
ExportReturns ==
    /\ \E r \in 1..Len(reqs) :
         LET h == reqs[r]
         IN  /\ h.pc = "exporting"
             /\ \E o \in Sorted(FAQ, PublishedIdx(FAQ)) :
                  reqs' = [reqs EXCEPT ![r] =
                             [FaqDone(h, 200) EXCEPT !.exported =
                                 [k \in 1..Len(o) |-> ExportItem(FAQ[o[k]], h.format)]]]
    /\ UNCHANGED <<CrawledPage, FAQ, genVars, crawlVars, dashVars>>

FaqNext ==
    \/ ReceiveFaq
    \/ CrawlReturns
    \/ FindReturns
    \/ PageSaved
    \/ GenReturns
    \/ InsertDone
    \/ FaqFound
    \/ FaqSaved
    \/ ExportReturns

SpecFaq == ApiInit /\ [][FaqNext]_vars

----------------------------------------------------------------------------
(* The Dashboard page with its CrawlForm, over the FAQ collection of the   *)
(* server.  POST /faqs/generate-faqs is one step of the server here, and   *)
(* GET /faqs lists records of the same createdAt in insertion order.       *)

MaxCalls == 3        \* calls of fetchFAQs
MaxSubmits == 1      \* submissions of the crawl form

Null == UrlArg("null", <<>>)
Str(s) == UrlArg("string", s)

\* String.prototype.toLowerCase on the characters of the URLs
ToLowerCase(s) ==
    [i \in 1..Len(s) |-> CASE s[i] = "Host" -> "host"
                           [] s[i] = "H" -> "h"
                           [] OTHER -> s[i]]

\* .replace(/\/+$/, '')
RECURSIVE DropTrailingSlashes(_)
DropTrailingSlashes(s) ==
    IF s # <<>> /\ s[Len(s)] = "/"
    THEN DropTrailingSlashes(SubSeq(s, 1, Len(s) - 1)) ELSE s

\* Dashboard.js 14-17
normalizeUrl(u) ==
    IF u.t # "string" \/ u.s = <<>> THEN <<>>
    ELSE ToLowerCase(DropTrailingSlashes(Trim(u.s)))

\* Dashboard.js 23-30: the filter of fetchFAQs
FilterFaqs(allFaqs, sourceUrl) ==
    IF sourceUrl.t = "string" /\ sourceUrl.s # <<>>
    THEN SelectSeq(allFaqs,
                   LAMBDA faq : normalizeUrl(Str(faq.sourceUrl)) = normalizeUrl(sourceUrl))
    ELSE allFaqs

\* listFaqsController: FAQ.find({}).sort({ createdAt: -1 })
RECURSIVE ListFrom(_, _)
ListFrom(coll, t) ==
    IF t = 0 THEN <<>>
    ELSE SelectSeq(coll, LAMBDA f : f.createdAt = t) \o ListFrom(coll, t - 1)

ListFaqs(coll) == ListFrom(coll, Now(coll) - 1)

\* a call of fetchFAQs: its argument, its position, the response it got
FetchCall(sourceUrl) == [sourceUrl |-> sourceUrl, pc |-> "sent", data |-> <<>>]

\* what the user types into the crawl form
FormUrls ==
    { <<"host">>,
      HTTPS_PREFIX \o <<"host">>,
      <<" ">> \o HTTP_PREFIX \o <<"Host", "/", " ">>,
      <<" ">> }

OTHER_SITE == HTTPS_PREFIX \o <<"other">>

\* the five FAQs generateFaqs returns
Generated == (CHOOSE o \in ApiGenOutcomes : o.ok).faqs

\* the records of an earlier generation for another website
OtherFaqs == InsertMany(<<>>, GenerateDocs(Generated, OTHER_SITE)).coll

\* a browser that never generated, with an empty or a filled collection,
\* or one that generated for another website before
DashInit ==
    /\ GenIdle
    /\ CrawlIdle
    /\ reqs = <<>>
    /\ CrawledPage = <<>>
    /\ \E st \in {Null, Str(OTHER_SITE)} :
         /\ dash = [NoDash EXCEPT !.storage = st]
         /\ FAQ \in (IF st = Null THEN {<<>>, OtherFaqs} ELSE {OtherFaqs})

\* the two effects after the first render: lines 40-49
Mount ==
    /\ ~dash.mounted
    /\ dash' = [dash EXCEPT
                  !.mounted = TRUE,
                  !.loading = TRUE,
                  !.currentUrl = IF dash.storage.t = "string" /\ dash.storage.s # <<>>
                                 THEN dash.storage ELSE dash.currentUrl,
                  !.calls = IF dash.storage.t = "string" /\ dash.storage.s # <<>>
                            THEN <<FetchCall(dash.currentUrl), FetchCall(dash.storage)>>
                            ELSE <<FetchCall(dash.currentUrl)>>]
    /\ UNCHANGED <<genVars, crawlVars, apiVars>>

\* CrawlForm.handleSubmit to its await: part_012 234-248
Submit ==
    /\ dash.mounted
    /\ dash.form.pc \notin {"generating", "responded"}
    /\ dash.submits < MaxSubmits
    /\ \E u \in FormUrls :
         dash' = [dash EXCEPT
                    !.submits = dash.submits + 1,
                    !.form = IF Trim(u) = <<>> THEN [url |-> <<>>, pc |-> "invalid"]
                             ELSE [url |-> Trim(u), pc |-> "generating"]]
    /\ UNCHANGED <<genVars, crawlVars, apiVars>>

\* the server handles POST /faqs/generate-faqs with success:
\* faqController.js 81-136
ServerGenerates ==
    /\ dash.form.pc = "generating"
    /\ FAQ' = InsertMany(FAQ, GenerateDocs(Generated,
                                           NormalizeUrl(Str(dash.form.url)))).coll
    /\ dash' = [dash EXCEPT !.form.pc = "responded"]
    /\ UNCHANGED <<genVars, crawlVars, reqs, CrawledPage>>

\* the request fails: part_012 260-264
GenerateRejected ==
    /\ dash.form.pc = "generating"
    /\ dash' = [dash EXCEPT !.form.pc = "failed"]
    /\ UNCHANGED <<genVars, crawlVars, apiVars>>

\* the response arrives: part_012 250-254, handleSuccess and the effect of
\* lines 47-49
GenerateResolved ==
    /\ dash.form.pc = "responded"
    /\ Len(dash.calls) < MaxCalls
    /\ dash' = [dash EXCEPT
                  !.form.pc = "succeeded",
                  !.storage = Str(dash.form.url),
                  !.currentUrl = Str(dash.form.url),
                  !.refreshKey = dash.refreshKey + 1,
                  !.loading = TRUE,
                  !.calls = Append(dash.calls, FetchCall(Str(dash.form.url)))]
    /\ UNCHANGED <<genVars, crawlVars, apiVars>>

\* handleRefresh and the effect of lines 47-49
Refresh ==
    /\ dash.mounted
    /\ Len(dash.calls) < MaxCalls
    /\ dash' = [dash EXCEPT
                  !.refreshKey = dash.refreshKey + 1,
                  !.loading = TRUE,
                  !.calls = Append(dash.calls, FetchCall(dash.currentUrl))]
    /\ UNCHANGED <<genVars, crawlVars, apiVars>>

\* the server answers a GET /faqs: faqController.js 192-206
ListAnswers ==
    /\ \E i \in 1..Len(dash.calls) :
         /\ dash.calls[i].pc = "sent"
         /\ dash' = [dash EXCEPT !.calls[i].pc = "answered",
                                 !.calls[i].data = ListFaqs(FAQ)]
    /\ UNCHANGED <<genVars, crawlVars, apiVars>>

\* the await of getFAQs resolves: lines 23-32 and 36
GetFaqsResolved ==
    /\ \E i \in 1..Len(dash.calls) :
         /\ dash.calls[i].pc = "answered"
         /\ dash' = [dash EXCEPT
                       !.calls[i].pc = "done",
                       !.loading = FALSE,
                       !.faqs = FilterFaqs(dash.calls[i].data, dash.calls[i].sourceUrl),
                       !.shownBy = i]
    /\ UNCHANGED <<genVars, crawlVars, apiVars>>

\* the await of getFAQs rejects: lines 33-36
GetFaqsRejected ==
    /\ \E i \in 1..Len(dash.calls) :
         /\ dash.calls[i].pc = "sent"
         /\ dash' = [dash EXCEPT !.calls[i].pc = "failed", !.loading = FALSE]
    /\ UNCHANGED <<genVars, crawlVars, apiVars>>

DashNext ==
    \/ Mount
    \/ Submit
    \/ ServerGenerates
    \/ GenerateRejected
    \/ GenerateResolved
    \/ Refresh
    \/ ListAnswers
    \/ GetFaqsResolved
    \/ GetFaqsRejected

SpecDash == DashInit /\ [][DashNext]_vars

----------------------------------------------------------------------------
(* One call of the generateFaqs that asks Claude.  Its checks, clamp,      *)
(* truncation and retry loop read as those of the OpenAI one; its parsing  *)
(* looks for the bracketed array first, its validation only warns about    *)
(* the count, and its catch block rethrows an error without a response.    *)

\* parseFaqResponse of the Claude service
ClaudeParseFaqResponse(toks) ==
    IF toks = <<>> THEN "EmptyResponse"
    ELSE LET parsed == JsonParse(BracketMatch(StripFences(toks)))
         IN  CASE parsed = "array" -> "array"
               [] parsed = "SyntaxError" -> "SyntaxError"
               [] OTHER -> "NotAnArray"

\* validateFaqs: the loop over the items, then a warning about the count
ValidateFaqs(faqs, expectedCount) ==
    IF Len(faqs) = 0
    THEN [ok |-> FALSE, faqs |-> <<>>, err |-> Thrown("Error", "no_faqs", -1)]
    ELSE ValidateFrom(faqs, 1)

\* lines 66-72: parse, validate, return faqs
ClaudeProcessResponse(r, n) ==
    LET p == ClaudeParseFaqResponse(r.content)
    IN  CASE p = "SyntaxError" ->
               [ok |-> FALSE, faqs |-> <<>>, err |-> Thrown("SyntaxError", "invalid_json", -1)]
          [] p = "EmptyResponse" ->
               [ok |-> FALSE, faqs |-> <<>>, err |-> Thrown("Error", "empty_response", -1)]
          [] p = "NotAnArray" ->
               [ok |-> FALSE, faqs |-> <<>>, err |-> Thrown("Error", "not_array", -1)]
          [] OTHER -> ValidateFaqs(r.items, n)

\* the catch block of the Claude generateFaqs
ClaudeCatchBlock(e) ==
    LET status == RespStatus(e)
        wrap == CASE e.resp = 1 /\ status = 429 -> "rate_limit"
                  [] e.resp = 1 /\ status >= 400 /\ status < 500 -> "client_error"
                  [] e.resp = 1 /\ status >= 500 -> "server_error"
                  [] e.resp = 1 -> "api_error"
                  [] e.name = "SyntaxError" -> "parse_error"
                  [] OTHER -> "rethrown"
    IN  [name |-> e.name, cause |-> e.cause, index |-> e.index, status |-> e.status,
         resp |-> e.resp, hasMsg |-> e.hasMsg, wrap |-> wrap]

ClaudeFail(e) ==
    /\ pc' = "failed"
    /\ error' = ClaudeCatchBlock(e)

\* lines 11-64: the checks, the clamp, the prompt, the first request
ClaudeCall ==
    /\ pc = "idle"
    /\ IF ~hasKey
       THEN /\ ClaudeFail(Thrown("Error", "no_api_key", -1))
            /\ UNCHANGED <<faqCount, promptLen, inFlight, log>>
       ELSE IF TextRejected(text)
       THEN /\ ClaudeFail(Thrown("Error", "text_required", -1))
            /\ UNCHANGED <<faqCount, promptLen, inFlight, log>>
       ELSE /\ faqCount' = EffectiveCount(count)
            /\ promptLen' = TruncatedLen(text)
            /\ inFlight' = inFlight + 1
            /\ log' = Append(log, Ev("request", 0))
            /\ pc' = "inflight"
            /\ error' = error
    /\ UNCHANGED <<hasKey, text, count, attempt, lastError, response, result, crawlVars, apiVars, dashVars>>

\* lines 138 and 66-72: the request resolved; parse, validate, return
ClaudeResolved ==
    /\ pc = "inflight"
    /\ \E m \in 0..(faqCount + MaxExtra) :
       \E d1 \in FirstDefects(m) :
       \E d2 \in SecondDefects(m, d1) :
       \E c \in ContentsFor(d1) :
         LET r == [content |-> c, items |-> Items(m, d1, d2)]
             out == ClaudeProcessResponse(r, faqCount)
         IN  /\ response' = r
             /\ IF out.ok
                THEN /\ pc' = "done"
                     /\ result' = out.faqs
                     /\ error' = error
                ELSE /\ ClaudeFail(out.err)
                     /\ result' = result
    /\ inFlight' = inFlight - 1
    /\ lastError' = NoError
    /\ log' = Append(log, Ev("resolved", 0))
    /\ UNCHANGED <<hasKey, text, count, faqCount, promptLen, attempt, crawlVars, apiVars, dashVars>>

\* error.response && error.response.status >= 400 && error.response.status < 500
ClaudeIsClientError(e) == e.resp = 1 /\ e.status >= 400 /\ e.status < 500

\* lines 139-156: the request was rejected; rethrow, back off or give up
ClaudeRejected ==
    /\ pc = "inflight"
    /\ \E e \in ProviderErrors :
         /\ lastError' = e
         /\ IF ClaudeIsClientError(e)
            THEN /\ ClaudeFail(e)
                 /\ log' = Append(log, Ev("rejected", 0))
            ELSE IF MayRetry(attempt)
            THEN /\ pc' = "backoff"
                 /\ log' = log \o <<Ev("rejected", 0), Ev("sleep", Delay(attempt))>>
                 /\ error' = error
            ELSE /\ ClaudeFail(e)
                 /\ log' = Append(log, Ev("rejected", 0))
    /\ inFlight' = inFlight - 1
    /\ UNCHANGED <<hasKey, text, count, faqCount, promptLen, attempt, response, result,
                   crawlVars, apiVars, dashVars>>

\* lines 150-151 and 113-115: the timer fired; attempt++, the next request
ClaudeTimerFired ==
    /\ pc = "backoff"
    /\ attempt + 1 <= RETRIES
    /\ attempt' = attempt + 1
    /\ inFlight' = inFlight + 1
    /\ log' = Append(log, Ev("request", 0))
    /\ pc' = "inflight"
    /\ lastError' = NoError
    /\ UNCHANGED <<hasKey, text, count, faqCount, promptLen, response, result, error,
                   crawlVars, apiVars, dashVars>>

ClaudeNext == ClaudeCall \/ ClaudeResolved \/ ClaudeRejected \/ ClaudeTimerFired

SpecClaude == GenInit /\ [][ClaudeNext]_vars

----------------------------------------------------------------------------
(* Properties of generateFaqs *)

Positions(e) == { p \in 1..Len(log) : log[p].e = e }
NumEvents(e) == Cardinality(Positions(e))
LastEvent == IF log = <<>> THEN "none" ELSE log[Len(log)].e

\* the call got a completion from the generator
Resolved == LastEvent = "resolved"

\* the requested count clamped into [5, 10], stated on the argument
FloorTenths(v) == CHOOSE k \in (0 - MaxTenths - 10)..(MaxTenths + 10) :
                      10 * k <= v /\ v < 10 * (k + 1)

ClampedCount(c) ==
    CASE c.t \in {"undefined", "nan", "ninf"} -> MIN_FAQS
      [] c.t = "pinf" -> MAX_FAQS
      [] OTHER -> LET f == FloorTenths(c.v)
                  IN  IF f < MIN_FAQS THEN MIN_FAQS
                      ELSE IF f > MAX_FAQS THEN MAX_FAQS ELSE f

\* a non-empty string without leading or trailing whitespace
CleanString(v) ==
    /\ v.t = "string"
    /\ Len(v.s) > 0
    /\ v.s[1] \notin WS
    /\ v.s[Len(v.s)] \notin WS

\* an item that passes the structural rule of the specification
NonBlank(v) == v.t = "string" /\ \E p \in 1..Len(v.s) : v.s[p] \notin WS
WellFormed(faq) == faq.t = "object" /\ NonBlank(faq.question) /\ NonBlank(faq.answer)

Decoded == ParseFaqResponse(response.content) = "array"
AllWellFormed == \A i \in 1..Len(response.items) : WellFormed(response.items[i])
Offending == { i \in 1..Len(response.items) : ~WellFormed(response.items[i]) }

\* the item of the response at place i, with question and answer trimmed
Stripped(v) ==
    LET keep == { p \in 1..Len(v.s) : v.s[p] \notin WS }
        lo == CHOOSE p \in keep : \A q \in keep : p <= q
        hi == CHOOSE p \in keep : \A q \in keep : p >= q
    IN  VStr(SubSeq(v.s, lo, hi))

Returned(i) ==
    LET faq == response.items[i]
    IN  Obj(faq.id, Stripped(faq.question), Stripped(faq.answer))

\* C1: a call that returns normally returns exactly faqCount items, faqCount
\* being the requested count clamped into [5,10], each with a non-empty
\* question and answer without leading or trailing whitespace; a call that
\* does not return normally returns no item.
C1_ExactCount ==
    /\ pc = "done" =>
         /\ Len(result) = ClampedCount(count)
         /\ \A i \in 1..Len(result) :
              /\ result[i].t = "object"
              /\ CleanString(result[i].question)
              /\ CleanString(result[i].answer)
    /\ pc # "done" => result = <<>>

C1_Witness ==
    /\ pc = "done"
    /\ count = Fin(30)
    /\ Len(response.items) > Len(result)
    /\ \E i \in 1..Len(result) : ~CleanString(response.items[i].question)

\* C2: a decoded, well-formed list with more than faqCount items makes the
\* call return its first faqCount items in their order; one with fewer than
\* faqCount items makes the call fail and return nothing.
C2_Reconcile ==
    (Resolved /\ Decoded /\ AllWellFormed) =>
        /\ Len(response.items) > faqCount =>
             /\ pc = "done"
             /\ result = [i \in 1..faqCount |-> Returned(i)]
             /\ \A i \in 1..faqCount : result[i].id = i
        /\ Len(response.items) < faqCount =>
             /\ pc = "failed"
             /\ error.wrap # "none"
             /\ result = <<>>

C2_Witness ==
    /\ pc = "done"
    /\ faqCount = 7
    /\ Len(response.items) = 9
    /\ Len(result) = 7

\* C4: a call issues at most 3 requests, one at a time; it sleeps 1000 ms
\* before the second and 2000 ms before the third and at no other time; after
\* three failed requests it has failed.
C4_RetryPolicy ==
    /\ inFlight \in {0, 1}
    /\ (inFlight = 1) <=> (LastEvent = "request")
    /\ NumEvents("request") <= 3
    /\ \A p \in Positions("request") : p > 1 => log[p - 1].e = "sleep"
    /\ \A p \in Positions("sleep") :
         /\ p > 1 /\ log[p - 1].e = "rejected"
         /\ p < Len(log) => log[p + 1].e = "request"
         /\ LET before == Cardinality({ q \in Positions("request") : q < p })
            IN  /\ before \in {1, 2}
                /\ log[p].ms = before * 1000
    /\ NumEvents("rejected") = 3 => /\ pc = "failed"
                                    /\ error.wrap # "none"
                                    /\ LastEvent = "rejected"

C4_Witness ==
    /\ pc = "failed"
    /\ NumEvents("request") = 3
    /\ NumEvents("rejected") = 3
    /\ NumEvents("sleep") = 2

\* C5: a rejection with a status in 400..499, 429 included, ends the call at
\* once on any attempt: no sleep and no request follows it and the call fails.
C5_ClientErrorEndsCall ==
    (lastError.name # "none" /\ lastError.status >= 400 /\ lastError.status <= 499) =>
        /\ pc = "failed"
        /\ error.wrap # "none"
        /\ LastEvent = "rejected"
        /\ inFlight = 0
        /\ result = <<>>

C5_Witness ==
    /\ pc = "failed"
    /\ lastError.status = 429
    /\ attempt = 1
    /\ LastEvent = "rejected"

\* C6: after k <= 2 transient failures (a 5xx status or no status) the call
\* retries, and when attempt k+1 then gets a well-formed response of the
\* required size the call returns its FAQs after exactly k retries, with no
\* request after the successful one.
C6_RetryThenSuccess ==
    /\ ( /\ lastError.name # "none"
         /\ lastError.status = 0 \/ (lastError.status >= 500 /\ lastError.status <= 599)
         /\ NumEvents("rejected") <= 2 ) => pc = "backoff"
    /\ (Resolved /\ Decoded /\ AllWellFormed /\ Len(response.items) = faqCount) =>
         /\ pc = "done"
         /\ result = [i \in 1..faqCount |-> Returned(i)]
         /\ NumEvents("rejected") \in 0..2
         /\ attempt = NumEvents("rejected")
         /\ NumEvents("request") = NumEvents("rejected") + 1
         /\ NumEvents("sleep") = NumEvents("rejected")
         /\ inFlight = 0

C6_Witness ==
    /\ pc = "done"
    /\ attempt = 2
    /\ NumEvents("rejected") = 2
    /\ NumEvents("request") = 3
    /\ Len(result) = faqCount

\* C7: when any decoded item, also one beyond the requested count, is not an
\* object or lacks a non-blank string question or answer, the call fails,
\* returns no item and its error names the smallest offending index.
C7_AllOrNothing ==
    (Resolved /\ Decoded /\ Offending # {}) =>
        /\ pc = "failed"
        /\ result = <<>>
        /\ error.cause \in {"not_object", "question", "answer"}
        /\ error.index + 1 \in Offending
        /\ \A i \in Offending : error.index + 1 <= i

C7_Witness ==
    /\ pc = "failed"
    /\ Cardinality(Offending) = 2
    /\ \A i \in Offending : i > faqCount
    /\ error.index >= faqCount

\* C8: with no credential, or with a text that is empty, only whitespace or
\* not a string, the call fails before any request and before any sleep.
C8_RejectedBeforeRequest ==
    (pc # "idle" /\ (~hasKey \/ text.t # "string" \/ text.trimmed = 0)) =>
        /\ pc = "failed"
        /\ error.cause \in {"no_api_key", "text_required"}
        /\ log = <<>>
        /\ inFlight = 0
        /\ result = <<>>

C8_Witness ==
    /\ pc = "failed"
    /\ hasKey
    /\ text.t = "string"
    /\ text.len > 0
    /\ text.trimmed = 0
    /\ log = <<>>

\* C3: the effective count is a whole number in [5,10]: 5 when the argument
\* is omitted, not a usable number or floors to 0, else floor(count) brought
\* into [5,10].
C3_EffectiveCount ==
    pc = "inflight" =>
        /\ faqCount \in MIN_FAQS..MAX_FAQS
        /\ faqCount = ClampedCount(count)
        /\ count.t \in {"undefined", "nan"} => faqCount = 5
        /\ (count.t = "fin" /\ count.v >= 0 /\ count.v < 10) => faqCount = 5
        /\ (count.t = "fin" /\ count.v < 50) => faqCount = 5
        /\ (count.t = "fin" /\ count.v > 100) => faqCount = 10
        /\ (count.t = "fin" /\ count.v >= 50 /\ count.v <= 100) =>
              /\ 10 * faqCount <= count.v
              /\ count.v < 10 * (faqCount + 1)

C3_Witness ==
    /\ pc = "inflight"
    /\ count = Fin(75)
    /\ faqCount = 7

----------------------------------------------------------------------------
(* Properties of crawlWebsite *)

\* element j is an ancestor of element i
Ancestor(dom, j, i) ==
    /\ j < i
    /\ dom[j].depth < dom[i].depth
    /\ \A k \in (j + 1)..i : dom[k].depth > dom[j].depth

IsNoise(el) == el.tag \in NoiseTags \/ el.mark \in NoiseMarks

\* element i lies in the subtree of an element the removals are aimed at
InNoise(dom, i) ==
    \/ IsNoise(dom[i])
    \/ \E j \in 1..Len(dom) : Ancestor(dom, j, i) /\ IsNoise(dom[j])

Range(f) == { f[x] : x \in DOMAIN f }

HeadingStrings(d) == UNION { Range(d.headings[l]) : l \in 1..6 }

\* the strings of the document that went through cleanText
CleanedStrings(d) ==
    {d.title, d.cleanedText} \cup HeadingStrings(d) \cup Range(d.paragraphs)
    \cup (IF d.description.isNull THEN {} ELSE {d.description.s})

\* the strings of the document that hold text of the page
TextStrings(d) ==
    {d.title, d.rawText, d.cleanedText} \cup HeadingStrings(d) \cup Range(d.paragraphs)

Occurs(ch, s) == \E p \in 1..Len(s) : s[p] = ch

\* C9: no text inside a script, style, nav, footer, header, aside, noscript,
\* iframe or svg element, or inside an element with one of the navigation,
\* banner, footer, sidebar or menu classes and roles, appears in the title,
\* the headings, the paragraphs, rawText or cleanedText of the document.
C9_NoNoiseText ==
    cpc = "done" =>
        \A i \in 1..Len(site.page) :
            InNoise(site.page, i) =>
                \A ch \in Range(site.page[i].text) :
                    \A s \in TextStrings(doc) : ~Occurs(ch, s)

C9_Witness ==
    /\ cpc = "done"
    /\ \E i \in 1..Len(site.page) :
         /\ site.page[i].tag = "nav"
         /\ site.page[i].text # <<>>
    /\ doc.paragraphs # <<>>
    /\ doc.rawText # <<>>
    /\ doc.title = <<"Untitled">>

\* a string without tab, carriage return, two spaces in a row, or whitespace
\* at either end
Normalized(s) ==
    /\ ~Occurs("\t", s)
    /\ ~Occurs("\r", s)
    /\ \A p \in 1..(Len(s) - 1) : ~(s[p] = " " /\ s[p + 1] = " ")
    /\ s # <<>> => (s[1] \notin WS /\ s[Len(s)] \notin WS)

\* C10: the output of cleanText, and so cleanedText, the title, the
\* description and every heading and paragraph of the document, has no tab,
\* no carriage return, no two spaces in a row and no whitespace at its ends.
C10_CleanTextNormalized ==
    cpc = "done" => \A s \in CleanedStrings(doc) : Normalized(s)

C10_Witness ==
    /\ cpc = "done"
    /\ LET given == site.page[3].content
       IN  /\ Len(given) = 4
           /\ given[1] = "\t"
           /\ given[2] = "word"
           /\ given[3] = " "
           /\ given[4] = " "
    /\ ~doc.description.isNull
    /\ doc.description.s = <<"word">>
    /\ doc.paragraphs = <<<<"word">>>>

\* C11: cleanText applied to a string that cleanText returned gives that
\* string again: cleanText(cleanText(s)) = cleanText(s) for the description,
\* the og:title and the texts of the headings and the paragraph of the page.
C11_CleanTextIdempotent ==
    cpc = "done" =>
        /\ \A s \in CleanedStrings(doc) : CleanText(s) = s
        /\ \A i \in 1..Len(site.page) :
              LET given == site.page[i].content \o site.page[i].text
              IN  CleanText(CleanText(given)) = CleanText(given)

C11_Witness ==
    /\ cpc = "done"
    /\ site.page[3].content = <<"a", "\n", "\n", "\t">>
    /\ doc.description.s = <<"a">>
    /\ doc.headings[2] = << <<"a", "a", " ", "a">> >>

\* the title the ordered fallback chooses on a page: the text of the title
\* tag, of the first h1, the og:title content, or "Untitled"
FallbackTitle(dom) ==
    LET t == Trim(TextOfAll(dom, ByTag(dom, "title")))
        h == Trim(TextOfAll(dom, First(ByTag(dom, "h1"))))
        og == AttrContent(dom, "property=og:title")
    IN  IF t # <<>> THEN t
        ELSE IF h # <<>> THEN h
        ELSE IF og.defined /\ og.s # <<>> THEN og.s
        ELSE <<"Untitled">>

\* C12: the title of a returned document is never empty and is the cleaned
\* text the fallback chooses: title tag, first h1, og:title, "Untitled".
C12_TitleNeverEmpty ==
    cpc = "done" =>
        /\ doc.title # <<>>
        /\ doc.title = CleanText(FallbackTitle(site.page))

\* C13: every string of the paragraphs list is longer than 20 characters,
\* and the list holds the cleaned texts of the paragraph elements that pass
\* the filter, in document order.
C13_ParagraphsLongerThan20 ==
    cpc = "done" =>
        /\ \A i \in 1..Len(doc.paragraphs) : StrLen(doc.paragraphs[i]) > 20
        /\ LET dom == StripNoise(site.page)
               ps == SelectSeq([i \in 1..Len(dom) |-> i],
                               LAMBDA i : dom[i].tag = "p"
                                          /\ StrLen(Trim(TextOf(dom, i))) > 20)
           IN  doc.paragraphs = [k \in 1..Len(ps) |-> CleanText(TextOf(dom, ps[k]))]

\* url.trim() with https:// put before it unless it starts with http:// or
\* https://
ExpectedUrl ==
    LET t == Trim(url.s)
    IN  IF \/ (Len(t) >= 7 /\ SubSeq(t, 1, 7) = HTTP_PREFIX)
           \/ (Len(t) >= 8 /\ SubSeq(t, 1, 8) = HTTPS_PREFIX)
        THEN t ELSE HTTPS_PREFIX \o t

\* C14: the URL fetched, and the url of the returned document, is the
\* trimmed argument when that starts with http:// or https:// and https://
\* followed by the trimmed argument otherwise; it starts with one of the two
\* prefixes, and normalizing it again leaves it unchanged.
C14_UrlNormalized ==
    /\ fetches # <<>> =>
          /\ fetches = <<ExpectedUrl>>
          /\ StartsWith(fetches[1], HTTP_PREFIX) \/ StartsWith(fetches[1], HTTPS_PREFIX)
          /\ NormalizeUrl(UrlArg("string", fetches[1])) = fetches[1]
    /\ cpc = "done" => doc.url = ExpectedUrl

C14_Witness ==
    /\ cpc = "done"
    /\ url.s = <<" ">> \o HTTP_PREFIX \o <<"host", "\n", "\t">>
    /\ doc.url = HTTP_PREFIX \o <<"host">>

CodeKind(code) ==
    CASE code = "ENOTFOUND" -> "dns"
      [] code = "ECONNREFUSED" -> "connection_refused"
      [] code \in {"ETIMEDOUT", "ECONNABORTED"} -> "timeout"
      [] code \in {"CERT_HAS_EXPIRED", "UNABLE_TO_VERIFY_LEAF_SIGNATURE"} -> "ssl"
      [] OTHER -> "none"

\* C16: a fetch that fails without an HTTP response raises the error of the
\* failure's code (DNS, connection refused, timeout, SSL certificate),
\* whether or not the failure carries the request; the generic no-response
\* error is raised only when none of these codes applies.
C16_NetworkErrorKind ==
    (cpc = "failed" /\ fetches # <<>> /\ site.status = 0) =>
        /\ CodeKind(site.code) # "none" => crawlError = CodeKind(site.code)
        /\ crawlError = "no_response" => CodeKind(site.code) = "none"

----------------------------------------------------------------------------
(* Properties of the HTTP API *)

\* C18 as claimed: every record a request inserts into the FAQ collection
\* is created with status draft, whatever the request body contains.
C18_AlwaysCreatedDraft ==
    [][\A i \in (Len(FAQ) + 1)..Len(FAQ') : FAQ'[i].status = "draft"]_vars

\* C18, amended: a record inserted by POST /faqs/generate-faqs is created
\* with status draft; a record inserted by POST /faqs/save is created with
\* status published when its item of the request body carries the status
\* "published" and with status draft otherwise; an insertion changes no
\* record that is already stored.
C18_DraftUnlessSavedAsPublished ==
    [][Len(FAQ') > Len(FAQ) =>
         /\ SubSeq(FAQ', 1, Len(FAQ)) = FAQ
         /\ \E r \in 1..Len(reqs) :
              /\ reqs[r].pc = "inserting"
              /\ reqs'[r].pc = "done"
              /\ reqs[r].op \in {"generate-faqs", "save"}
              /\ \A i \in (Len(FAQ) + 1)..Len(FAQ') :
                   FAQ'[i].status =
                     IF /\ reqs[r].op = "save"
                        /\ reqs[r].body.faqs[i - Len(FAQ)].status = VStr(<<"published">>)
                     THEN "published" ELSE "draft"]_vars

C18_Witness ==
    /\ \E r \in 1..Len(reqs) : reqs[r].op = "save" /\ reqs[r].reply = 201
    /\ \E r \in 1..Len(reqs) : reqs[r].op = "generate-faqs" /\ reqs[r].reply = 201
    /\ \E i \in 1..Len(FAQ) : FAQ[i].status = "published"
    /\ \E i \in 1..Len(FAQ) :
         FAQ[i].status = "draft" /\ FAQ[i].sourceUrl = HTTPS_PREFIX \o <<"host">>

\* C19: the CrawledPage collection holds at most one record for each URL.
C19_OnePagePerUrl ==
    \A i \in 1..Len(CrawledPage) : \A j \in 1..Len(CrawledPage) :
        CrawledPage[i].url = CrawledPage[j].url => i = j

\* C20: a crawl or generate-faqs request whose extracted rawText or
\* cleanedText is empty or shorter than 50 characters after trimming is
\* answered 400, saves no page, inserts no FAQ and never calls the
\* generator; with both at 50 or more the request goes on: the crawl saves
\* the page and answers 200, generate-faqs calls the generator.
C20_MinimumContent ==
    /\ \A r \in 1..Len(reqs) :
         LET h == reqs[r]
         IN  (h.op \in {"crawl", "generate-faqs"} /\ h.page # NoPage) =>
               IF h.page.raw < 50 \/ h.page.clean < 50
               THEN /\ h.pc = "done"
                    /\ h.reply = 400
                    /\ ~h.savedPage
                    /\ ~h.genCalled
                    /\ h.inserted = 0
               ELSE h.pc = "done" =>
                      /\ h.op = "crawl" => (h.reply = 200 /\ h.savedPage)
                      /\ h.op = "generate-faqs" =>
                           (h.genCalled /\ h.reply \in {201, 429, 500})
    /\ (\A r \in 1..Len(reqs) : reqs[r].pc = "done" /\ reqs[r].reply = 400) =>
          (CrawledPage = <<>> /\ FAQ = <<>>)

C20_Witness ==
    /\ \E r \in 1..Len(reqs) :
         /\ reqs[r].op = "generate-faqs"
         /\ reqs[r].reply = 400
         /\ reqs[r].page.raw = 68
         /\ reqs[r].page.clean = 49
    /\ \E r \in 1..Len(reqs) :
         /\ reqs[r].op = "generate-faqs"
         /\ reqs[r].reply = 201
         /\ reqs[r].page.clean = 50

----------------------------------------------------------------------------
(* Properties of the parsing, the truncation and the retries of            *)
(* generateFaqs                                                            *)

\* the completion text without its code-fence markers
Unfenced(c) ==
    LET keep == { p \in 1..Len(c) : c[p] \notin {FENCE_JSON, FENCE} }
        Nth(k) == CHOOSE p \in keep : Cardinality({ q \in keep : q < p }) = k - 1
    IN  [k \in 1..Cardinality(keep) |-> c[Nth(k)]]

\* the errors of the parsing step
ParseCauses == {"empty_response", "invalid_json", "not_array"}

\* the ordered strategies find an array in the completion text
FindsArray(c) ==
    /\ c # <<>>
    /\ \/ JsonParse(Unfenced(c)) = "object_faqs"
       \/ JsonParse(Unfenced(c)) = "array"
       \/ JsonParse(BracketMatch(Unfenced(c))) = "array"

\* C24: the completion text is decoded by ordered strategies after its fence
\* markers are removed: an object whose faqs field is an array, an array, or
\* the text from the first '[' to the last ']' when that is an array; the
\* items found are the ones validated and returned; any other text makes the
\* call fail with an error of the parsing step.  A fenced object with 5
\* well-formed items and count 5 yields all 5.
C24_ParseStrategies ==
    Resolved =>
        /\ FindsArray(response.content) =>
              /\ error.cause \notin ParseCauses
              /\ (AllWellFormed /\ Len(response.items) >= faqCount) =>
                    /\ pc = "done"
                    /\ result = [i \in 1..faqCount |-> Returned(i)]
        /\ ~FindsArray(response.content) =>
              /\ pc = "failed"
              /\ error.cause \in ParseCauses
              /\ result = <<>>
        /\ ( /\ response.content # <<>>
             /\ response.content[1] = FENCE_JSON
             /\ "{faqs:" \in { response.content[p] : p \in 1..Len(response.content) }
             /\ Len(response.items) = 5
             /\ faqCount = 5 ) =>
              /\ pc = "done"
              /\ Len(result) = 5

C24_Witness ==
    /\ pc = "done"
    /\ response.content = <<"prose", "[", "ITEMS", "]", "prose">>
    /\ faqCount = 5
    /\ Len(result) = 5

\* the call went past its checks and built the prompt
Prompted == pc # "idle" /\ hasKey /\ ~TextRejected(text)

Refused == ~Decoded \/ Offending # {} \/ Len(response.items) < faqCount

\* C26: only a failed request is retried.  Once a request has returned a
\* response, nothing follows it in the call: a response refused by the
\* parsing, the validation or the count check makes the call fail at once,
\* with no later request and no sleep; a call issues as many requests as
\* requests of it failed, or one more.
C26_RetryOnlyRequests ==
    /\ \A p \in Positions("resolved") : p = Len(log)
    /\ NumEvents("resolved") <= 1
    /\ (Resolved /\ Refused) =>
         /\ pc = "failed"
         /\ error.wrap # "none"
         /\ result = <<>>
         /\ inFlight = 0
         /\ NumEvents("sleep") = NumEvents("rejected")
    /\ NumEvents("request") - NumEvents("rejected") \in {0, 1}
    /\ NumEvents("request") = NumEvents("rejected") + NumEvents("resolved") + inFlight

C26_Witness ==
    /\ pc = "failed"
    /\ Resolved
    /\ Decoded
    /\ AllWellFormed
    /\ Len(response.items) = faqCount - 1
    /\ NumEvents("rejected") = 1
    /\ NumEvents("request") = 2

----------------------------------------------------------------------------
(* Properties of the generateFaqs that asks Claude *)

\* C22: a call of the Claude generateFaqs that returns normally returns
\* exactly the requested count clamped into [5,10] of items, each with a
\* question and an answer.
C22_ClaudeExactCount ==
    pc = "done" =>
        /\ Len(result) = ClampedCount(count)
        /\ \A i \in 1..Len(result) :
             /\ result[i].t = "object"
             /\ CleanString(result[i].question)
             /\ CleanString(result[i].answer)

----------------------------------------------------------------------------
(* Properties of the FAQ records *)

RECURSIVE InsertedBy(_)
InsertedBy(hs) == IF hs = <<>> THEN 0 ELSE Head(hs).inserted + InsertedBy(Tail(hs))

\* C27: a generate-faqs request inserts FAQ records only after its call of
\* the generator returned: a request whose crawl, content check or
\* generation failed has inserted nothing, every stored record was inserted
\* by a request answered 201, and the page such a request saved before it
\* called the generator stays stored.
C27_InsertAfterGeneration ==
    /\ Len(FAQ) = InsertedBy(reqs)
    /\ \A r \in 1..Len(reqs) :
         LET h == reqs[r]
         IN  h.op = "generate-faqs" =>
               /\ h.inserted > 0 => (h.pc = "done" /\ h.reply = 201 /\ h.genCalled)
               /\ (h.pc = "done" /\ h.reply # 201) => h.inserted = 0
               /\ h.pc = "inserting" =>
                     (h.genCalled /\ Len(h.docs) = EffectiveCount(Undefined))
               /\ h.savedPage =>
                     \E i \in 1..Len(CrawledPage) : CrawledPage[i] = h.page
    /\ (\A r \in 1..Len(reqs) :
           reqs[r].op = "generate-faqs" /\ reqs[r].reply # 201) => FAQ = <<>>

C27_Witness ==
    /\ Len(reqs) = 1
    /\ reqs[1].op = "generate-faqs"
    /\ reqs[1].savedPage
    /\ reqs[1].genCalled
    /\ reqs[1].reply = 500
    /\ FAQ = <<>>
    /\ Len(CrawledPage) = 1

\* a request whose handler ends in this step
Ends(r) == reqs[r].pc # "done" /\ reqs'[r].pc = "done"

RECURSIVE Undoubled(_)
Undoubled(s) ==
    IF s = <<>> THEN <<>>
    ELSE IF Len(s) >= 2 /\ s[1] = QUOTE /\ s[2] = QUOTE
    THEN <<QUOTE>> \o Undoubled(SubSeq(s, 3, Len(s)))
    ELSE <<Head(s)>> \o Undoubled(Tail(s))

\* the text a reader of the CSV gets from a quoted field
Unquoted(s) == Undoubled(SubSeq(s, 2, Len(s) - 1))

\* the record an exported item stands for
Read(item, format) ==
    IF format = "csv"
    THEN [question |-> Unquoted(item.question), answer |-> Unquoted(item.answer),
          sourceUrl |-> SubSeq(item.sourceUrl, 2, Len(item.sourceUrl) - 1),
          createdAt |-> item.createdAt]
    ELSE item

\* C21: an export, as JSON and as CSV, returns one item for each record
\* that is published when the query runs and none for a draft, the newest
\* first.
C21_ExportPublished ==
    [][\A r \in 1..Len(reqs) :
         (reqs[r].pc = "exporting" /\ Ends(r)) =>
            LET pub == { i \in 1..Len(FAQ) : FAQ[i].status = "published" }
                rows == reqs'[r].exported
            IN  /\ reqs'[r].reply = 200
                /\ Len(rows) = Cardinality(pub)
                /\ \E o \in [1..Len(rows) -> pub] :
                     /\ \A j, k \in 1..Len(rows) : o[j] = o[k] => j = k
                     /\ \A k \in 1..Len(rows) :
                          Read(rows[k], reqs[r].format) =
                            [question |-> FAQ[o[k]].question,
                             answer |-> FAQ[o[k]].answer,
                             sourceUrl |-> FAQ[o[k]].sourceUrl,
                             createdAt |-> FAQ[o[k]].createdAt]
                /\ \A k \in 1..(Len(rows) - 1) :
                     rows[k].createdAt >= rows[k + 1].createdAt]_vars

\* a record saved as published and set back to draft, and an export without it
C21_Witness ==
    /\ Len(reqs) = 3
    /\ reqs[1].op = "save" /\ reqs[1].reply = 201
    /\ reqs[2].op = "update" /\ reqs[2].reply = 200
    /\ reqs[2].upd.status = VStr(<<"draft">>)
    /\ reqs[3].op = "export" /\ reqs[3].format = "csv" /\ reqs[3].reply = 200
    /\ reqs[3].exported = <<>>
    /\ Len(FAQ) = 1
    /\ FAQ[1].status = "draft"

BadStatus(v) == v.t # "undefined" /\ v \notin { VStr(<<"draft">>), VStr(<<"published">>) }

\* C28: an update of a stored record with a status that is neither draft
\* nor published is answered 400 and an update or a publish of an id that is
\* not stored is answered 404; a request answered 400 or 404 changes no
\* record at any step, whatever else its body carries.
C28_RejectedUpdate ==
    [][/\ \A r \in 1..Len(reqs) :
            LET h == reqs[r]
            IN  (h.op \in {"update", "publish"} /\ Ends(r)) =>
                   /\ (h.id.t = "oid" /\ h.id.n > Len(FAQ)) =>
                         (reqs'[r].reply = 404 /\ FAQ' = FAQ)
                   /\ ( /\ h.op = "update"
                        /\ h.id.t = "oid"
                        /\ h.id.n <= Len(FAQ)
                        /\ BadStatus(h.upd.status) ) =>
                         (reqs'[r].reply = 400 /\ h.pc = "finding-faq" /\ FAQ' = FAQ)
                   /\ reqs'[r].reply \in {400, 404} => FAQ' = FAQ
       /\ FAQ' # FAQ =>
            \E r \in 1..Len(reqs) : Ends(r) /\ reqs'[r].reply \in {200, 201}]_vars

C28_Witness ==
    /\ \E r \in 1..Len(reqs) :
         /\ reqs[r].op = "update"
         /\ reqs[r].upd.question = VStr(<<"Q2">>)
         /\ reqs[r].upd.status = VStr(<<"bogus">>)
         /\ reqs[r].reply = 400
    /\ \E r \in 1..Len(reqs) : reqs[r].op = "publish" /\ reqs[r].reply = 404
    /\ Len(FAQ) = 1
    /\ FAQ[1].question = <<"Q", QUOTE>>

\* a stored string: not empty, no whitespace at either end
TrimmedText(s) == s # <<>> /\ s[1] \notin WS /\ s[Len(s)] \notin WS

Lawful(f) ==
    /\ f.status \in {"draft", "published"}
    /\ TrimmedText(f.question)
    /\ TrimmedText(f.answer)

----------------------------------------------------------------------------
(* Properties of the Dashboard *)

Settled == \A i \in 1..Len(dash.calls) : dash.calls[i].pc \in {"done", "failed"}

\* C23: after a generation succeeded for the URL typed into the form, with
\* or without http:// or https://, the list shows the records whose
\* sourceUrl is the URL as the server normalizes it: here once the call of
\* fetchFAQs that the success started is the last one started and the last
\* one to resolve.
C23_ShowsGenerated ==
    ( /\ dash.form.pc = "succeeded"
      /\ Settled
      /\ dash.shownBy = Len(dash.calls)
      /\ dash.calls[Len(dash.calls)].sourceUrl = Str(dash.form.url) ) =>
        /\ dash.faqs = SelectSeq(ListFaqs(FAQ),
                                 LAMBDA f : f.sourceUrl = NormalizeUrl(Str(dash.form.url)))
        /\ Len(dash.faqs) = Len(Generated)

\* C30: once every call of fetchFAQs has completed, the list is the result
\* of the call started last, filtered by its URL.
C30_LatestFetchWins ==
    ( /\ dash.calls # <<>>
      /\ Settled
      /\ dash.calls[Len(dash.calls)].pc = "done" ) =>
        dash.faqs = FilterFaqs(dash.calls[Len(dash.calls)].data,
                               dash.calls[Len(dash.calls)].sourceUrl)
====
